---- MODULE Spec2Model ----
(***************************************************************************)
(* Verification model of the engramma design-token core:                   *)
(*   - the TreeStore / TreeState node map and its transact protocol        *)
(*   - parseDesignTokens (both the parseNode and the parseGroup variants)  *)
(*   - resolveTokenValue over a node map                                   *)
(***************************************************************************)
EXTENDS Naturals, Integers, Sequences, FiniteSets, TLC

VARIABLES
    nodes,        \* TreeStore.#nodes: the Map, as its entries in insertion order
    subscribers,  \* TreeStore.#subscribers: the Set, in insertion order
    stack,        \* the JavaScript call stack of store-related frames
    ref,          \* ghost: the reference map nodeId -> node
    lastTx,       \* ghost: how the most recent transact call ended
    wellFormed,   \* ghost: every set and delete so far kept the tree well formed
    observed,     \* result of the most recent read
    ops,          \* number of handle calls issued so far
    doc,          \* input handed to parseDesignTokens
    result,       \* outcome of parseDesignTokens (parseNode variant)
    menuResult,   \* outcome of parseDesignTokens (parseGroup variant)
    json,         \* output of serializeDesignTokens over the parsed nodes
    reparsed,     \* outcome of parseDesignTokens over that output
    rmap,         \* node map handed to resolveTokenValue
    rcur,         \* resolveTokenValue: the node of the current invocation
    rstack,       \* resolveTokenValue: resolvingStack
    rout,         \* resolveTokenValue: outcome
    rstart,       \* resolveTokenValue: the node of the outermost invocation
    rwalk,        \* findTokenType: currentParentId
    resolverInput, \* value handed to isResolverFormat and parseTokenResolver
    format,       \* outcome of isResolverFormat
    resolved,     \* outcome of parseTokenResolver
    output,       \* outcome of the most recent read of the stored nodes
    url,          \* the data parameter of window.location.search
    pending,      \* setDataInUrl calls waiting for compressData, oldest first
    syncToUrl,    \* TreeState.#syncToUrl
    lastSynced,   \* ghost: the most recent transact called #updateUrl
    currentId,    \* referenceToVariable: currentId
    cssWalk,      \* referenceToVariable: position of the call
    importResults, \* import dialog: importResults
    isInputTouched, \* import dialog: isInputTouched
    dialog,       \* import dialog: the dialog element
    notified      \* ghost: subscriber calls made so far by imports

storeVars == <<nodes, subscribers, stack, ref, lastTx, wellFormed, observed, ops>>
parseVars == <<doc, result, menuResult, json, reparsed>>
resolveVars == <<rmap, rcur, rstack, rout, rstart, rwalk>>
resolverVars == <<resolverInput, format, resolved>>
exportVars == <<output>>
urlVars == <<url, pending, syncToUrl, lastSynced>>
cssVars == <<currentId, cssWalk>>
importVars == <<importResults, isInputTouched, dialog, notified>>
appVars == <<urlVars, cssVars, importVars>>
vars == <<nodes, subscribers, stack, ref, lastTx, wellFormed, observed, ops,
          doc, result, menuResult, json, reparsed, rmap, rcur, rstack, rout, rstart, rwalk,
          resolverInput, format, resolved, output, appVars>>

Undefined == "undefined"

(***************************************************************************)
(* Bounds                                                                  *)
(***************************************************************************)
MaxOps == 2
MaxNesting == 2
MaxSubscribers == 1

(***************************************************************************)
(* Strings as sequences of code units, compared as JavaScript compares     *)
(* them with < and >                                                       *)
(***************************************************************************)
RECURSIVE StrLess(_, _)
StrLess(a, b) ==
    IF Len(b) = 0 THEN FALSE
    ELSE IF Len(a) = 0 THEN TRUE
    ELSE IF Head(a) < Head(b) THEN TRUE
    ELSE IF Head(a) > Head(b) THEN FALSE
    ELSE StrLess(Tail(a), Tail(b))

\* index strings used by the callers: "a0", "b0"
IndexKeys == {<<97, 48>>, <<98, 48>>}

NodeIds == {"n1", "n2"}
ParentIds == NodeIds \cup {Undefined}

TreeNode == [nodeId : NodeIds, parentId : ParentIds, index : IndexKeys]
NoNode == [nodeId |-> Undefined, parentId |-> Undefined, index |-> <<>>]

compareTreeNodes(a, b) ==
    IF StrLess(a.index, b.index) THEN -1
    ELSE IF StrLess(b.index, a.index) THEN 1
    ELSE 0

(***************************************************************************)
(* Map<string, TreeNode> as the sequence of its entries                    *)
(***************************************************************************)
MapHas(m, key) == \E i \in 1..Len(m) : m[i].nodeId = key

MapGet(m, key) ==
    IF MapHas(m, key)
    THEN m[CHOOSE i \in 1..Len(m) : m[i].nodeId = key]
    ELSE NoNode

\* a store that pushes every node it is given
MapSetAppend(m, node) == Append(m, node)

\* a store that writes a new key over its newest entry
MapSetOverNewest(m, node) ==
    IF MapHas(m, node.nodeId)
    THEN [i \in 1..Len(m) |-> IF m[i].nodeId = node.nodeId THEN node ELSE m[i]]
    ELSE IF Len(m) = 0 THEN <<node>>
    ELSE [m EXCEPT ![Len(m)] = node]

\* Map.prototype.set: an existing key keeps its position, a new key is appended
MapSet(m, node) ==
    IF MapHas(m, node.nodeId)
    THEN [i \in 1..Len(m) |-> IF m[i].nodeId = node.nodeId THEN node ELSE m[i]]
    ELSE Append(m, node)

\* Map.prototype.delete
RECURSIVE MapDelete(_, _)
MapDelete(m, key) ==
    IF Len(m) = 0 THEN <<>>
    ELSE IF Head(m).nodeId = key THEN MapDelete(Tail(m), key)
    ELSE <<Head(m)>> \o MapDelete(Tail(m), key)

RECURSIVE Filter(_, _)
Filter(s, p) ==
    IF Len(s) = 0 THEN <<>>
    ELSE IF s[1].parentId = p THEN <<s[1]>> \o Filter(Tail(s), p)
    ELSE Filter(Tail(s), p)

\* Array.prototype.sort is stable: insert each element after the elements
\* that do not compare greater
RECURSIVE InsertSorted(_, _)
InsertSorted(s, x) ==
    IF Len(s) = 0 THEN <<x>>
    ELSE IF compareTreeNodes(Head(s), x) > 0 THEN <<x>> \o s
    ELSE <<Head(s)>> \o InsertSorted(Tail(s), x)

RECURSIVE Sort(_)
Sort(s) ==
    IF Len(s) = 0 THEN <<>>
    ELSE InsertSorted(Sort(SubSeq(s, 1, Len(s) - 1)), s[Len(s)])

values == nodes

getChildren(nodeId) == Sort(Filter(nodes, nodeId))

(***************************************************************************)
(* Call-stack frames                                                       *)
(***************************************************************************)
NoTx == [outcome |-> "none", restored |-> TRUE, clear |-> FALSE, applied |-> TRUE]

Top == stack[Len(stack)]
InCallback == Len(stack) > 0 /\ Top.kind = "callback"
InSubscriber == Len(stack) > 0 /\ Top.kind = "subscriber"
Pop == SubSeq(stack, 1, Len(stack) - 1)
\* number of transact calls that have not returned yet
Nesting == Cardinality({i \in 1..Len(stack) : stack[i].kind \in {"callback", "notify"}})

StoreInit ==
    /\ nodes = <<>>
    /\ subscribers = <<>>
    /\ stack = <<>>
    /\ ref = [id \in NodeIds |-> NoNode]
    /\ lastTx = NoTx
    /\ wellFormed = TRUE
    /\ observed = <<>>
    /\ ops = 0

ParseIdle ==
    /\ doc = Undefined
    /\ result = [done |-> FALSE]
    /\ menuResult = [done |-> FALSE]
    /\ json = [done |-> FALSE]
    /\ reparsed = [done |-> FALSE]
ResolveIdle ==
    /\ rmap = <<>>
    /\ rcur = 0
    /\ rstack = {}
    /\ rout = "idle"
    /\ rstart = 0
    /\ rwalk = 0
ResolverIdle ==
    /\ resolverInput = Undefined
    /\ format = [done |-> FALSE]
    /\ resolved = [done |-> FALSE]
    /\ output = [done |-> FALSE]
UrlIdle ==
    /\ url = Undefined
    /\ pending = <<>>
    /\ syncToUrl = FALSE
    /\ lastSynced = FALSE
CssIdle ==
    /\ currentId = Undefined
    /\ cssWalk = "idle"
ImportIdle ==
    /\ importResults = <<>>
    /\ isInputTouched = FALSE
    /\ dialog = "open"
    /\ notified = 0
AppIdle == UrlIdle /\ CssIdle /\ ImportIdle

(***************************************************************************)
(* Callers that keep the tree well formed                                  *)
(***************************************************************************)
\* the ids reached from id by following parentId links, id included
RECURSIVE AncestorsOrSelf(_, _, _)
AncestorsOrSelf(m, id, fuel) ==
    IF fuel = 0 \/ id = Undefined \/ ~MapHas(m, id) THEN {}
    ELSE {id} \cup AncestorsOrSelf(m, MapGet(m, id).parentId, fuel - 1)

\* set(node) with a parent that is in the store and is neither the node nor
\* one of its descendants
WellFormedSet(node) ==
    \/ node.parentId = Undefined
    \/ /\ MapHas(nodes, node.parentId)
       /\ node.nodeId \notin AncestorsOrSelf(nodes, node.parentId, Len(nodes))

\* delete(nodeId) of a node without children
WellFormedDelete(nodeId) ==
    \A i \in 1..Len(nodes) : nodes[i].parentId # nodeId

(***************************************************************************)
(* TreeStore                                                               *)
(***************************************************************************)
\* subscribe(callback)
Subscribe(s) ==
    /\ stack = <<>>
    /\ \A i \in 1..Len(subscribers) : subscribers[i] # s
    /\ subscribers' = Append(subscribers, s)
    /\ UNCHANGED <<nodes, stack, ref, lastTx, wellFormed, observed, ops>>
    /\ UNCHANGED <<parseVars, resolveVars, resolverVars, exportVars, appVars>>

\* the function returned by subscribe
Unsubscribe(s) ==
    /\ stack = <<>>
    /\ \E i \in 1..Len(subscribers) : subscribers[i] = s
    /\ subscribers' = SelectSeq(subscribers, LAMBDA x : x # s)
    /\ UNCHANGED <<nodes, stack, ref, lastTx, wellFormed, observed, ops>>
    /\ UNCHANGED <<parseVars, resolveVars, resolverVars, exportVars, appVars>>

\* transact(callback) is entered: the callback starts running.  It may be
\* called from the top level, from a running callback or from a subscriber.
Transact ==
    /\ Nesting < MaxNesting
    /\ ops < MaxOps
    /\ stack = <<>> \/ InCallback \/ InSubscriber
    /\ stack' = Append(stack, [kind |-> "callback", pre |-> nodes])
    /\ observed' = <<>>
    /\ lastTx' = NoTx
    /\ UNCHANGED <<nodes, subscribers, ref, wellFormed, ops>>
    /\ UNCHANGED <<parseVars, resolveVars, resolverVars, exportVars, appVars>>

\* tx.set(node)
TxSet(node) ==
    /\ InCallback
    /\ ops < MaxOps
    /\ nodes' = MapSet(nodes, node)
    /\ ref' = [ref EXCEPT ![node.nodeId] = node]
    /\ wellFormed' = (wellFormed /\ WellFormedSet(node))
    /\ ops' = ops + 1
    /\ UNCHANGED <<subscribers, stack, lastTx, observed>>
    /\ UNCHANGED <<parseVars, resolveVars, resolverVars, exportVars, appVars>>

\* tx.delete(nodeId)
TxDelete(nodeId) ==
    /\ InCallback
    /\ ops < MaxOps
    /\ nodes' = MapDelete(nodes, nodeId)
    /\ ref' = [ref EXCEPT ![nodeId] = NoNode]
    /\ wellFormed' = (wellFormed /\ WellFormedDelete(nodeId))
    /\ ops' = ops + 1
    /\ UNCHANGED <<subscribers, stack, lastTx, observed>>
    /\ UNCHANGED <<parseVars, resolveVars, resolverVars, exportVars, appVars>>

\* The map a callback calling clear() and then set(n1)..set(nk) asks for
RECURSIVE ApplySets(_, _)
ApplySets(m, sets) ==
    IF Len(sets) = 0 THEN m
    ELSE ApplySets(MapSet(m, Head(sets)), Tail(sets))

SameMap(m1, m2) ==
    {m1[i] : i \in 1..Len(m1)} = {m2[i] : i \in 1..Len(m2)}

\* tx.clear(), to be followed by set(intended[1]) .. set(intended[k]): the
\* handle built by transact has the properties set and delete only, so the
\* call of the missing property raises a TypeError, which leaves the callback
\* and transact before any of the sets and before #notify
TxClear(intended) ==
    /\ InCallback
    /\ stack' = Pop
    /\ lastTx' = [outcome |-> "threw", restored |-> (nodes = Top.pre),
                  clear |-> TRUE,
                  applied |-> SameMap(nodes, ApplySets(<<>>, intended))]
    /\ UNCHANGED <<nodes, subscribers, ref, wellFormed, observed, ops>>
    /\ UNCHANGED <<parseVars, resolveVars, resolverVars, exportVars, appVars>>

\* the callback throws: the exception leaves transact before #notify
Throw ==
    /\ InCallback
    /\ stack' = Pop
    /\ lastTx' = [outcome |-> "threw", restored |-> (nodes = Top.pre),
                  clear |-> FALSE, applied |-> TRUE]
    /\ UNCHANGED <<nodes, subscribers, ref, wellFormed, observed, ops>>
    /\ UNCHANGED <<parseVars, resolveVars, resolverVars, exportVars, appVars>>

\* the callback returns: transact goes on to #notify
Return ==
    /\ InCallback
    /\ stack' = Append(Pop, [kind |-> "notify", pre |-> Top.pre, pos |-> 0])
    /\ UNCHANGED <<nodes, subscribers, ref, lastTx, wellFormed, observed, ops>>
    /\ UNCHANGED <<parseVars, resolveVars, resolverVars, exportVars, appVars>>

\* #notify: forEach invokes the next subscriber
Notify ==
    /\ Len(stack) > 0
    /\ Top.kind = "notify"
    /\ Top.pos < Len(subscribers)
    /\ stack' = Append(Append(Pop, [Top EXCEPT !.pos = @ + 1]),
                       [kind |-> "subscriber", id |-> subscribers[Top.pos + 1]])
    /\ UNCHANGED <<nodes, subscribers, ref, lastTx, wellFormed, observed, ops>>
    /\ UNCHANGED <<parseVars, resolveVars, resolverVars, exportVars, appVars>>

\* a subscriber returns to forEach
SubscriberReturn ==
    /\ InSubscriber
    /\ stack' = Pop
    /\ UNCHANGED <<nodes, subscribers, ref, lastTx, wellFormed, observed, ops>>
    /\ UNCHANGED <<parseVars, resolveVars, resolverVars, exportVars, appVars>>

\* #notify is through with the subscribers: transact returns
TransactDone ==
    /\ Len(stack) > 0
    /\ Top.kind = "notify"
    /\ Top.pos >= Len(subscribers)
    /\ stack' = Pop
    /\ lastTx' = [outcome |-> "returned", restored |-> (nodes = Top.pre),
                  clear |-> FALSE, applied |-> TRUE]
    /\ UNCHANGED <<nodes, subscribers, ref, wellFormed, observed, ops>>
    /\ UNCHANGED <<parseVars, resolveVars, resolverVars, exportVars, appVars>>

\* TreeState.getChildren(nodeId) / TreeStore.getChildren(nodeId)
Read(p) ==
    /\ stack = <<>>
    /\ observed' = getChildren(p)
    /\ UNCHANGED <<nodes, subscribers, stack, ref, lastTx, wellFormed, ops>>
    /\ UNCHANGED <<parseVars, resolveVars, resolverVars, exportVars, appVars>>

SubscriberIds == 1..MaxSubscribers

\* the sets a callback issues after clear(): none, or one root node
ClearScripts == {<<>>} \cup {<<n>> : n \in {t \in TreeNode : t.parentId = Undefined}}

StoreNext ==
    \/ \E s \in SubscriberIds : Subscribe(s)
    \/ \E s \in SubscriberIds : Unsubscribe(s)
    \/ Transact
    \/ \E node \in TreeNode : TxSet(node)
    \/ \E nodeId \in NodeIds : TxDelete(nodeId)
    \/ \E intended \in ClearScripts : TxClear(intended)
    \/ Throw
    \/ Return
    \/ Notify
    \/ SubscriberReturn
    \/ TransactDone
    \/ \E p \in ParentIds : Read(p)

Init == StoreInit /\ ParseIdle /\ ResolveIdle /\ ResolverIdle /\ AppIdle

Next == StoreNext

Spec == Init /\ [][Next]_vars

(***************************************************************************)
(* Properties of the store                                                 *)
(***************************************************************************)

\* C1: transact is atomic: when the callback throws after some of its
\* mutations, the store equals the map it held when transact was called.
TransactRestoresOnThrow ==
    (lastTx.outcome = "threw" /\ ~lastTx.clear) => lastTx.restored

\* C2: a subscriber is never invoked while a transaction callback is still
\* running, also when transact is called from inside a callback.
NotifiedOnlyOutsideCallbacks ==
    InSubscriber => \A i \in 1..Len(stack) : stack[i].kind # "callback"

\* every parentId is undefined or the nodeId of a stored node, and following
\* parentId links from any node ends at a root
RECURSIVE ReachesRoot(_, _, _)
ReachesRoot(m, id, fuel) ==
    IF fuel = 0 \/ ~MapHas(m, id) THEN FALSE
    ELSE IF MapGet(m, id).parentId = Undefined THEN TRUE
    ELSE ReachesRoot(m, MapGet(m, id).parentId, fuel - 1)

IsForest(m) == \A i \in 1..Len(m) : ReachesRoot(m, m[i].nodeId, Len(m))

ClearThenSetsReplacesStore == lastTx.clear => lastTx.applied

\* C5: the store is the reference map: one node per nodeId, carrying the
\* fields of the latest set, and getChildren(p) lists exactly the nodes whose
\* parentId is p in ascending order of index.
StoreIsReferenceMap ==
    /\ \A i, j \in 1..Len(values) : values[i].nodeId = values[j].nodeId => i = j
    /\ {values[i] : i \in 1..Len(values)} = {ref[id] : id \in NodeIds} \ {NoNode}
    /\ \A p \in ParentIds :
          LET children == getChildren(p)
              expected == {n \in {ref[id] : id \in NodeIds} \ {NoNode} : n.parentId = p}
          IN /\ {children[i] : i \in 1..Len(children)} = expected
             /\ Len(children) = Cardinality(expected)
             /\ \A i \in 1..Len(children) - 1 :
                   ~StrLess(children[i + 1].index, children[i].index)

\* two siblings were stored in the opposite order of their index keys
ReferenceMapWitness ==
    /\ ops = 2
    /\ \E p \in ParentIds :
          /\ Len(Filter(nodes, p)) = 2
          /\ getChildren(p) # Filter(nodes, p)

(***************************************************************************)
(* JSON documents                                                          *)
(*                                                                         *)
(* A JSON value is a record with a kind.  An object keeps its "$type" and  *)
(* "$value" properties in the fields type and value (Absent when the key   *)
(* is missing) and its other properties, in insertion order, in entries.   *)
(* A property name is the sequence of its dot-free segments, so "a.b" is   *)
(* <<"a", "b">> and joining a path with "." is concatenation.              *)
(***************************************************************************)
MaxEntries == 3

Absent == [kind |-> "absent"]
Str(s) == [kind |-> "string", str |-> s]
NumberValue == [kind |-> "number"]
BooleanValue == [kind |-> "boolean"]
NullValue == [kind |-> "null"]
ArrayValue == [kind |-> "array"]
ColorValue == [kind |-> "colorValue"]
DimensionValue == [kind |-> "dimensionValue"]
Obj(type, value, entries) ==
    [kind |-> "object", type |-> type, value |-> value, entries |-> entries]

TokenTypes == {"color", "dimension", "fontFamily", "fontWeight", "duration",
               "cubicBezier", "number", "strokeStyle", "border", "transition",
               "shadow", "gradient", "typography"}

\* reference strings of the documents, with the path they spell
RefSegments ==
    ("{a}" :> <<"a">>) @@ ("{b}" :> <<"b">>)
    @@ ("{a.a}" :> <<"a", "a">>) @@ ("{a.b}" :> <<"a", "b">>)

ReservedSegments == {"$root", "$type", "$value", "$description"}

RECURSIVE Join(_)
Join(path) == IF path = <<>> THEN <<>> ELSE Head(path) \o Join(Tail(path))

isObject(v) == v.kind = "object"

isTokenObject(v) == isObject(v) /\ v.value # Absent

nameSchema(name) == Len(name) = 1 /\ name[1] \notin ReservedSegments

referenceSchema(v) == v.kind = "string" /\ v.str \in DOMAIN RefSegments

isTokenReference(value) == referenceSchema(value)

tokenTypeSchema(t) == t.kind = "string" /\ t.str \in TokenTypes

descriptionsAreStrings(entries) ==
    \A i \in 1..Len(entries) :
        entries[i].name = <<"$description">> => entries[i].data.kind = "string"

\* a value accepted by shadowObject
ShadowObject == [kind |-> "shadowObject"]

\* an array of n shadow objects
ShadowList(n) == [kind |-> "shadowList", items |-> [i \in 1..n |-> ShadowObject]]

shadowValue(value) ==
    \/ value = ShadowObject
    \/ value.kind = "shadowList" /\ Len(value.items) >= 1

tokenSchema(data) ==
    /\ isObject(data)
    /\ \/ data.value.kind \in {"colorValue", "dimensionValue", "string", "number"}
       \/ shadowValue(data.value)
    /\ data.type = Absent \/ tokenTypeSchema(data.type)
    /\ descriptionsAreStrings(data.entries)

groupSchema(data) ==
    /\ isObject(data)
    /\ data.type = Absent \/ tokenTypeSchema(data.type)
    /\ descriptionsAreStrings(data.entries)
    /\ \A i \in 1..Len(data.entries) :
           data.entries[i].name = <<"$root">> => tokenSchema(data.entries[i].data)

RawValueSchema(type, value) ==
    CASE type = "color" -> value.kind \in {"colorValue", "string"}
      [] type = "dimension" -> value.kind \in {"dimensionValue", "string"}
      [] type = "number" -> value.kind \in {"number", "string"}
      [] type = "fontWeight" -> value.kind \in {"number", "string"}
      [] type = "fontFamily" -> value.kind = "string"
      [] type = "shadow" -> value.kind \in {"shadowList", "string"}
      [] OTHER -> value.kind = "string"

\* Object.entries(data): every own property in insertion order
ObjectEntries(data) ==
    (IF data.type = Absent THEN <<>> ELSE <<[name |-> <<"$type">>, data |-> data.type]>>)
    \o (IF data.value = Absent THEN <<>> ELSE <<[name |-> <<"$value">>, data |-> data.value]>>)
    \o data.entries

\* payload.data.$type of a payload the schema accepted
TypeProp(data) == IF data.type = Absent THEN Undefined ELSE data.type.str

(***************************************************************************)
(* The input documents: objects of at most MaxEntries properties in all,   *)
(* at most two per object, named "a" then "b"; the second may instead      *)
(* carry the token name "$root" or the dotted name "a.b".  A document is   *)
(* written property by property in document order, so a new property goes  *)
(* into one of the objects still open on the path to the last property.    *)
(***************************************************************************)
LeafPayloads ==
    {Obj(Str("color"), ColorValue, <<>>),
     Obj(Absent, ColorValue, <<>>),
     Obj(Absent, BooleanValue, <<>>),
     NumberValue}
    \cup {Obj(Absent, Str(r), <<>>) : r \in DOMAIN RefSegments}

GroupTypeProps == {Absent, Str("color"), Str("dimension")}

NewPayloads == LeafPayloads \cup {Obj(t, Absent, <<>>) : t \in GroupTypeProps}

SecondNames == {<<"b">>, <<"$root">>, <<"a", "b">>}

EmptyDocument == Obj(Absent, Absent, <<>>)

isOpenObject(data) == isObject(data) /\ data.value = Absent

RECURSIVE CountEntries(_)
CountEntries(data) ==
    IF ~isObject(data) \/ data.entries = <<>> THEN 0
    ELSE Len(data.entries)
         + CountEntries(data.entries[1].data)
         + (IF Len(data.entries) > 1 THEN CountEntries(data.entries[2].data) ELSE 0)

\* the number of objects open below data on the path to its last property
RECURSIVE OpenDepth(_)
OpenDepth(data) ==
    IF data.entries = <<>> \/ ~isOpenObject(data.entries[Len(data.entries)].data) THEN 0
    ELSE 1 + OpenDepth(data.entries[Len(data.entries)].data)

\* the open object depth levels below data
RECURSIVE OpenObject(_, _)
OpenObject(data, depth) ==
    IF depth = 0 THEN data
    ELSE OpenObject(data.entries[Len(data.entries)].data, depth - 1)

RECURSIVE WriteProperty(_, _, _)
WriteProperty(data, depth, entry) ==
    IF depth = 0 THEN [data EXCEPT !.entries = Append(@, entry)]
    ELSE [data EXCEPT !.entries[Len(data.entries)].data = WriteProperty(@, depth - 1, entry)]

(***************************************************************************)
(* parseDesignTokens, parseNode variant                                    *)
(*                                                                         *)
(* intermediaryNodes is the Map as its entries in insertion order; an      *)
(* entry's key is the joined path.  collectedErrors is a sequence.         *)
(***************************************************************************)
NoResult == [done |-> FALSE]

InvalidName == "Invalid name"
InvalidShape == "Invalid shape"
InvalidValue == "Invalid value"
CannotDetermine == "Token type cannot be determined"

recordErrorDropped(path, message) == <<>>

recordError(path, message) == <<[path |-> path, message |-> message]>>

\* inheritedType = payload.data.$type ?? inheritedType
InheritOuterFirst(own, inheritedType) ==
    IF inheritedType # Undefined THEN inheritedType ELSE own

InheritType(own, inheritedType) == IF own # Undefined THEN own ELSE inheritedType

RECURSIVE parseNode(_, _, _, _), parseChildren(_, _, _, _)
parseNode(parentPath, name, data, inheritedType) ==
    LET path == Append(parentPath, name) IN
    IF ~nameSchema(name) /\ name # <<"$root">>
    THEN [inter |-> <<>>, errors |-> recordError(Join(path), InvalidName)]
    ELSE IF ~(IF isTokenObject(data) THEN tokenSchema(data) ELSE groupSchema(data))
    THEN [inter |-> <<>>, errors |-> recordError(Join(path), InvalidShape)]
    ELSE LET type == InheritType(TypeProp(data), inheritedType)
             self == [key |-> Join(path),
                      parentPath |-> Join(parentPath),
                      name |-> name,
                      type |-> type,
                      payload |-> data]
             below == IF data.value = Absent /\ isObject(data)
                      THEN parseChildren(path, ObjectEntries(data), 1, type)
                      ELSE [inter |-> <<>>, errors |-> <<>>]
         IN [inter |-> <<self>> \o below.inter, errors |-> below.errors]

parseChildren(path, entries, i, inheritedType) ==
    IF i > Len(entries) THEN [inter |-> <<>>, errors |-> <<>>]
    ELSE LET name == entries[i].name
             first == IF Head(name) \in ReservedSegments /\ name # <<"$root">>
                      THEN [inter |-> <<>>, errors |-> <<>>]
                      ELSE parseNode(path, name, entries[i].data, inheritedType)
             rest == parseChildren(path, entries, i + 1, inheritedType)
         IN [inter |-> first.inter \o rest.inter, errors |-> first.errors \o rest.errors]

RECURSIVE parseEntries(_, _)
parseEntries(entries, i) ==
    IF i > Len(entries) THEN [inter |-> <<>>, errors |-> <<>>]
    ELSE LET first == parseNode(<<>>, entries[i].name, entries[i].data, Undefined)
             rest == parseEntries(entries, i + 1)
         IN [inter |-> first.inter \o rest.inter, errors |-> first.errors \o rest.errors]

\* position of the entry with the given key, 0 when the Map has none
IntermediaryGet(inter, key) ==
    IF \E i \in 1..Len(inter) : inter[i].key = key
    THEN CHOOSE i \in 1..Len(inter) : inter[i].key = key
    ELSE 0

\* a joined path is falsy when it is undefined or the empty string
Truthy(key) == key # <<>> /\ key # <<"">>

RECURSIVE resolveAliasTypeLoop(_, _, _)
resolveAliasTypeLoop(inter, visited, currentPath) ==
    IF ~Truthy(currentPath) THEN Undefined
    ELSE IF currentPath \in visited THEN Undefined
    ELSE LET n == IntermediaryGet(inter, currentPath) IN
         IF n = 0 THEN Undefined
         ELSE IF inter[n].payload.value = Absent THEN Undefined
         ELSE IF inter[n].type # Undefined THEN inter[n].type
         ELSE IF ~isTokenReference(inter[n].payload.value) THEN Undefined
         ELSE resolveAliasTypeLoop(inter, visited \cup {currentPath},
                                   RefSegments[inter[n].payload.value.str])

resolveAliasType(inter, value) == resolveAliasTypeLoop(inter, {}, value)

Coalesce(a, b) == IF a # Undefined THEN a ELSE b

\* value = [parsed.data] for a single shadow object
WrapShadowNever(value) == value

WrapShadow(value) ==
    IF shadowValue(value) /\ value.kind # "shadowList" /\ value.kind # "string"
    THEN [kind |-> "shadowList", items |-> <<value>>]
    ELSE value

\* the returned { type, value }, or ok = FALSE for a return of undefined
resolveTokenTypeAndValue(inter, path, intermediaryNode, token) ==
    IF isTokenReference(token.value)
    THEN LET type == Coalesce(TypeProp(token),
                              Coalesce(resolveAliasType(inter, path), intermediaryNode.type))
         IN [ok |-> type # Undefined, type |-> type, value |-> token.value, errors |-> <<>>]
    ELSE IF intermediaryNode.type = Undefined
    THEN [ok |-> FALSE, type |-> Undefined, value |-> token.value, errors |-> <<>>]
    ELSE LET value == IF intermediaryNode.type = "shadow"
                      THEN WrapShadow(token.value)
                      ELSE token.value
         IN IF ~RawValueSchema(intermediaryNode.type, value)
            THEN [ok |-> FALSE, type |-> Undefined, value |-> value,
                  errors |-> recordError(path, InvalidValue)]
            ELSE [ok |-> TRUE, type |-> intermediaryNode.type, value |-> value,
                  errors |-> <<>>]

NoParent == 0

\* generateKeyBetween(key, null) for the keys "a0" .. "a8"
generateKeyFirst(key) == <<97, 49>>

generateKeyAfter(key) == <<key[1], key[2] + 1>>

zeroIndex == <<97, 48>>

\* the loop over intermediaryNodes, from entry i on; nodeId is the entry's rank
RECURSIVE buildNodes(_, _, _)
buildNodes(inter, i, lastChildIndexPerParent) ==
    IF i > Len(inter) THEN [nodes |-> <<>>, errors |-> <<>>]
    ELSE LET intermediaryNode == inter[i]
             parentId == IF Truthy(intermediaryNode.parentPath)
                         THEN IntermediaryGet(inter, intermediaryNode.parentPath)
                         ELSE NoParent
             isToken == intermediaryNode.payload.value # Absent
             typeAndValue == resolveTokenTypeAndValue(inter, intermediaryNode.key,
                                                      intermediaryNode,
                                                      intermediaryNode.payload)
         IN IF isToken /\ ~typeAndValue.ok
            THEN LET rest == buildNodes(inter, i + 1, lastChildIndexPerParent)
                 IN [nodes |-> rest.nodes,
                     errors |-> typeAndValue.errors
                                \o recordError(intermediaryNode.key, CannotDetermine)
                                \o rest.errors]
            ELSE LET meta == IF isToken
                             THEN [nodeType |-> "token",
                                   name |-> intermediaryNode.name,
                                   type |-> typeAndValue.type,
                                   value |-> typeAndValue.value]
                             ELSE [nodeType |-> "token-group",
                                   name |-> intermediaryNode.name,
                                   type |-> intermediaryNode.type,
                                   value |-> Absent]
                     prevIndex == lastChildIndexPerParent[parentId]
                     index == generateKeyAfter(IF prevIndex # <<>> THEN prevIndex
                                               ELSE zeroIndex)
                     rest == buildNodes(inter, i + 1,
                                 [lastChildIndexPerParent EXCEPT ![parentId] = index])
                 IN [nodes |-> <<[nodeId |-> i, parentId |-> parentId,
                                  index |-> index, meta |-> meta]>> \o rest.nodes,
                     errors |-> rest.errors]

parseDesignTokens(input) ==
    IF ~isObject(input) THEN [done |-> TRUE, threw |-> FALSE, nodes |-> <<>>, errors |-> <<>>]
    ELSE LET walk == parseEntries(ObjectEntries(input), 1)
             built == buildNodes(walk.inter, 1, [p \in 0..Len(walk.inter) |-> <<>>])
         IN [done |-> TRUE, threw |-> FALSE,
             nodes |-> built.nodes,
             errors |-> walk.errors \o built.errors]

(***************************************************************************)
(* parseDesignTokens, parseGroup / parseToken variant                      *)
(*                                                                         *)
(* The traversal state is threaded through the calls: the nodes pushed so  *)
(* far, the collected errors, and whether an exception is propagating.     *)
(* lastChildIndexPerParent.get(p) is the index of the latest node pushed   *)
(* under p.                                                                *)
(***************************************************************************)
addNode(state, parentId, meta) ==
    LET siblings == {i \in 1..Len(state.nodes) : state.nodes[i].parentId = parentId}
        prevIndex == IF siblings = {} THEN zeroIndex
                     ELSE state.nodes[CHOOSE i \in siblings : \A j \in siblings : j <= i].index
    IN [state EXCEPT !.nodes = Append(@, [nodeId |-> Len(state.nodes) + 1,
                                          parentId |-> parentId,
                                          index |-> generateKeyAfter(prevIndex),
                                          meta |-> meta])]

addError(state, path, message) ==
    [state EXCEPT !.errors = @ \o recordError(Join(path), message)]

parseToken(state, name, data, path, parentNodeId, inheritedType) ==
    IF ~nameSchema(name) /\ name # <<"$root">>
    THEN addError(state, path, InvalidName)
    ELSE IF ~tokenSchema(data)
    THEN addError(state, path, InvalidShape)
    ELSE IF isTokenReference(data.value)
    THEN addNode(state, parentNodeId,
                 [nodeType |-> "token", name |-> name,
                  type |-> TypeProp(data), value |-> data.value])
    ELSE LET type == Coalesce(TypeProp(data), inheritedType) IN
         IF type = Undefined
         THEN addError(state, path, CannotDetermine)
         ELSE LET value == IF type = "shadow" THEN WrapShadow(data.value)
                           ELSE data.value
              IN IF ~RawValueSchema(type, value)
                 THEN addError(state, path, InvalidValue)
                 ELSE addNode(state, parentNodeId,
                              [nodeType |-> "token", name |-> name,
                               type |-> type, value |-> value])

RECURSIVE parseGroup(_, _, _, _, _, _), parseGroupEntries(_, _, _, _, _, _)
parseGroup(state, name, data, path, parentNodeId, inheritedType) ==
    IF ~nameSchema(name)
    THEN addError(state, path, InvalidName)
    ELSE IF ~groupSchema(data)
    THEN [state EXCEPT !.threw = TRUE]
    ELSE LET groupMeta == [nodeType |-> "token-group", name |-> name,
                           type |-> TypeProp(data), value |-> Absent]
             added == addNode(state, parentNodeId, groupMeta)
         IN parseGroupEntries(added, ObjectEntries(data), 1, path, Len(added.nodes),
                              Coalesce(groupMeta.type, inheritedType))

parseGroupEntries(state, entries, i, path, nodeId, inheritedType) ==
    IF state.threw \/ i > Len(entries) THEN state
    ELSE LET name == entries[i].name
             value == entries[i].data
             childPath == Append(path, name)
             after ==
                 IF name = <<"$root">>
                 THEN parseToken(state, name, value, childPath, nodeId, inheritedType)
                 ELSE IF Head(name) \in ReservedSegments
                 THEN state
                 ELSE IF isTokenObject(value)
                 THEN parseToken(state, name, value, childPath, nodeId, inheritedType)
                 ELSE parseGroup(state, name, value, childPath, nodeId, inheritedType)
         IN parseGroupEntries(after, entries, i + 1, path, nodeId, inheritedType)

RECURSIVE parseTopLevel(_, _, _)
parseTopLevel(state, entries, i) ==
    IF state.threw \/ i > Len(entries) THEN state
    ELSE LET name == entries[i].name
             value == entries[i].data
             after == IF isTokenObject(value)
                      THEN parseToken(state, name, value, <<name>>, NoParent, Undefined)
                      ELSE parseGroup(state, name, value, <<name>>, NoParent, Undefined)
         IN parseTopLevel(after, entries, i + 1)

parseDesignTokensByGroup(input) ==
    LET empty == [done |-> TRUE, threw |-> FALSE, nodes |-> <<>>, errors |-> <<>>] IN
    IF ~isObject(input) THEN empty
    ELSE parseTopLevel(empty, ObjectEntries(input), 1)

(***************************************************************************)
(* serializeDesignTokens                                                   *)
(*                                                                         *)
(* nodes is the Map as the sequence of its values.  An object property     *)
(* whose value is undefined is written as Absent.                          *)
(***************************************************************************)
\* meta.type && inheritedType !== meta.type ? meta.type : undefined
WrittenType(metaType, inheritedType) ==
    IF metaType # Undefined /\ inheritedType # metaType THEN metaType ELSE Undefined

TypeValue(type) == IF type = Undefined THEN Absent ELSE Str(type)

\* object[name] = data
RECURSIVE AssignProperty(_, _, _)
AssignProperty(entries, name, data) ==
    IF entries = <<>> THEN <<[name |-> name, data |-> data]>>
    ELSE IF Head(entries).name = name THEN <<[name |-> name, data |-> data]>> \o Tail(entries)
    ELSE <<Head(entries)>> \o AssignProperty(Tail(entries), name, data)

\* token.$value = parsed.data[0] for a stored list of one shadow
UnwrapShadow(metaType, value) ==
    IF metaType = "shadow" /\ value.kind = "shadowList" /\ Len(value.items) = 1
       /\ shadowValue(value)
    THEN value.items[1]
    ELSE value

RECURSIVE serializeNode(_, _, _), serializeChildren(_, _, _)
serializeNode(ns, node, inheritedType) ==
    LET meta == node.meta
        type == WrittenType(meta.type, inheritedType)
    IN IF meta.nodeType = "token-group"
       THEN Obj(TypeValue(type), Absent,
                serializeChildren(ns, Sort(Filter(ns, node.nodeId)),
                                  Coalesce(meta.type, inheritedType)))
       ELSE Obj(TypeValue(type), UnwrapShadow(meta.type, meta.value), <<>>)

\* the loop over the sorted children, each assigned under its name
serializeChildren(ns, children, inheritedType) ==
    IF children = <<>> THEN <<>>
    ELSE LET child == children[Len(children)]
         IN AssignProperty(serializeChildren(ns, SubSeq(children, 1, Len(children) - 1),
                                             inheritedType),
                           child.meta.name, serializeNode(ns, child, inheritedType))

serializeDesignTokens(ns) ==
    Obj(Absent, Absent, serializeChildren(ns, Sort(Filter(ns, NoParent)), Undefined))

(***************************************************************************)
(* Parsing specification: a document is chosen, then each variant of the   *)
(* parser is applied to it once.                                           *)
(***************************************************************************)
ParseInit ==
    /\ doc = EmptyDocument
    /\ result = NoResult
    /\ menuResult = NoResult
    /\ json = NoResult
    /\ reparsed = NoResult
    /\ StoreInit
    /\ AppIdle
    /\ ResolveIdle
    /\ ResolverIdle

\* the caller writes one more property into the document it will hand over
WriteDocument(depth, name, payload) ==
    /\ ~result.done /\ ~menuResult.done
    /\ CountEntries(doc) < MaxEntries
    /\ depth <= OpenDepth(doc)
    /\ LET entries == OpenObject(doc, depth).entries IN
           \/ entries = <<>> /\ name = <<"a">>
           \/ Len(entries) = 1 /\ name \in SecondNames
    /\ doc' = WriteProperty(doc, depth, [name |-> name, data |-> payload])
    /\ UNCHANGED <<result, menuResult, json, reparsed, storeVars, resolveVars, resolverVars, exportVars, appVars>>

CallParseDesignTokens ==
    /\ ~result.done
    /\ result' = parseDesignTokens(doc)
    /\ UNCHANGED <<doc, menuResult, json, reparsed, storeVars, resolveVars, resolverVars, exportVars, appVars>>

CallParseDesignTokensByGroup ==
    /\ ~menuResult.done /\ ~json.done
    /\ menuResult' = parseDesignTokensByGroup(doc)
    /\ UNCHANGED <<doc, result, json, reparsed, storeVars, resolveVars, resolverVars, exportVars, appVars>>

\* serializeDesignTokens over the nodes of the first parse
CallSerializeDesignTokens ==
    /\ result.done /\ ~menuResult.done /\ ~json.done
    /\ json' = [done |-> TRUE, output |-> serializeDesignTokens(result.nodes)]
    /\ UNCHANGED <<doc, result, menuResult, reparsed, storeVars, resolveVars, resolverVars, exportVars, appVars>>

\* parseDesignTokens over the serialized output
CallParseAgain ==
    /\ json.done /\ ~reparsed.done
    /\ reparsed' = parseDesignTokens(json.output)
    /\ UNCHANGED <<doc, result, menuResult, json, storeVars, resolveVars, resolverVars, exportVars, appVars>>

\* the caller writes a property under the empty name or under "a"
WriteNamedProperty(depth, name, payload) ==
    /\ ~result.done /\ ~menuResult.done
    /\ CountEntries(doc) < MaxEntries
    /\ depth <= OpenDepth(doc)
    /\ LET entries == OpenObject(doc, depth).entries IN
           /\ Len(entries) < 2
           /\ \A i \in 1..Len(entries) : entries[i].name # name
    /\ doc' = WriteProperty(doc, depth, [name |-> name, data |-> payload])
    /\ UNCHANGED <<result, menuResult, json, reparsed, storeVars, resolveVars, resolverVars, exportVars, appVars>>

ParseNext ==
    \/ \E depth \in 0..MaxEntries, name \in {<<"a">>} \cup SecondNames,
          payload \in NewPayloads : WriteDocument(depth, name, payload)
    \/ CallParseDesignTokens
    \/ CallParseDesignTokensByGroup
    \/ CallSerializeDesignTokens
    \/ CallParseAgain

SpecParse == ParseInit /\ [][ParseNext]_vars

\* documents whose property names are "" and "a"
EmptyNames == {<<"">>, <<"a">>}

ParseNamesNext ==
    \/ \E depth \in 0..MaxEntries, name \in EmptyNames,
          payload \in NewPayloads : WriteNamedProperty(depth, name, payload)
    \/ CallParseDesignTokens
    \/ CallSerializeDesignTokens
    \/ CallParseAgain

SpecParseNames == ParseInit /\ [][ParseNamesNext]_vars

\* shadow documents: a group "a" holding the tokens "a" and "b"
MaxShadowItems == 2

ShadowValues ==
    {ShadowObject, Str("{a.b}"), Str("hello"), ColorValue}
    \cup {ShadowList(n) : n \in 1..MaxShadowItems}

ShadowTypeProps == {Absent, Str("shadow")}

ShadowDocuments ==
    {Obj(Absent, Absent,
         <<[name |-> <<"a">>,
            data |-> Obj(groupType, Absent,
                         <<[name |-> <<"a">>, data |-> Obj(t1, v1, <<>>)],
                           [name |-> <<"b">>, data |-> Obj(t2, v2, <<>>)]>>)]>>) :
        groupType \in ShadowTypeProps, t1 \in ShadowTypeProps, t2 \in ShadowTypeProps,
        v1 \in ShadowValues, v2 \in ShadowValues}

ShadowInit ==
    /\ doc \in ShadowDocuments
    /\ result = NoResult
    /\ menuResult = NoResult
    /\ json = NoResult
    /\ reparsed = NoResult
    /\ StoreInit
    /\ AppIdle
    /\ ResolveIdle
    /\ ResolverIdle

ShadowNext ==
    \/ CallParseDesignTokens
    \/ CallSerializeDesignTokens
    \/ CallParseAgain

SpecShadow == ShadowInit /\ [][ShadowNext]_vars

(***************************************************************************)
(* The document as the parser's contract sees it                           *)
(***************************************************************************)
\* a property the traversal treats as a child node
isChildName(name) == Head(name) \notin ReservedSegments \/ name = <<"$root">>

\* the node passes name and shape validation
isValidNode(name, data) ==
    /\ nameSchema(name) \/ name = <<"$root">>
    /\ IF isTokenObject(data) THEN tokenSchema(data) ELSE groupSchema(data)

\* the nodes reached through valid groups only, each with its path of names
\* and the $type declarations of its ancestors, nearest first
RECURSIVE VisitedNodes(_, _, _)
VisitedNodes(entries, prefix, declared) ==
    UNION {LET name == entries[i].name
               data == entries[i].data
               self == [path |-> Append(prefix, name), data |-> data,
                        declared |-> declared,
                        valid |-> isValidNode(name, data)]
           IN IF ~isChildName(name) /\ prefix # <<>> THEN {}
              ELSE IF self.valid /\ isOpenObject(data)
              THEN {self} \cup VisitedNodes(data.entries, self.path,
                                            <<TypeProp(data)>> \o declared)
              ELSE {self}
           : i \in 1..Len(entries)}

ValidNodes(input) == {v \in VisitedNodes(input.entries, <<>>, <<>>) : v.valid}

InvalidNodes(input) == {v \in VisitedNodes(input.entries, <<>>, <<>>) : ~v.valid}

isTokenNode(v) == v.data.value # Absent

\* own $type, else the $type of the nearest ancestor group declaring one
RECURSIVE FirstDeclared(_)
FirstDeclared(declared) ==
    IF declared = <<>> THEN Undefined
    ELSE IF Head(declared) # Undefined THEN Head(declared)
    ELSE FirstDeclared(Tail(declared))

DeclaredType(v) == FirstDeclared(<<TypeProp(v.data)>> \o v.declared)

\* the declared type of the first token along the alias chain of v that has one
RECURSIVE ChainType(_, _, _)
ChainType(input, v, fuel) ==
    IF fuel = 0 \/ ~isTokenReference(v.data.value) THEN Undefined
    ELSE LET targets == {t \in ValidNodes(input) :
                            Join(t.path) = RefSegments[v.data.value.str] /\ isTokenNode(t)}
         IN IF targets = {} THEN Undefined
            ELSE LET t == CHOOSE t \in targets : TRUE
                 IN IF DeclaredType(t) # Undefined THEN DeclaredType(t)
                    ELSE ChainType(input, t, fuel - 1)

EffectiveType(input, v) ==
    IF DeclaredType(v) # Undefined THEN DeclaredType(v)
    ELSE ChainType(input, v, MaxEntries + 1)

\* the path of names of an emitted node, read off the parent links
RECURSIVE NamePath(_, _)
NamePath(ns, id) ==
    IF id = NoParent THEN <<>>
    ELSE LET n == CHOOSE n \in {ns[i] : i \in 1..Len(ns)} : n.nodeId = id
         IN Append(NamePath(ns, n.parentId), n.meta.name)

IsPrefix(p, q) == Len(p) <= Len(q) /\ SubSeq(q, 1, Len(p)) = p

\* what an emitted node list says, apart from ids and index keys
Outline(ns) ==
    [i \in 1..Len(ns) |-> [path |-> NamePath(ns, ns[i].nodeId),
                           nodeType |-> ns[i].meta.nodeType,
                           type |-> ns[i].meta.type,
                           value |-> ns[i].meta.value]]

\* the input with the property at the path of names p removed
RECURSIVE RemoveEntry(_, _), RemoveSubtree(_, _)
RemoveEntry(entries, p) ==
    IF entries = <<>> THEN <<>>
    ELSE IF Head(entries).name # Head(p) THEN <<Head(entries)>> \o RemoveEntry(Tail(entries), p)
    ELSE IF Len(p) = 1 THEN Tail(entries)
    ELSE <<[Head(entries) EXCEPT !.data = RemoveSubtree(@, Tail(p))]>> \o Tail(entries)

RemoveSubtree(data, p) == [data EXCEPT !.entries = RemoveEntry(@, p)]

ParseNeverThrows ==
    /\ result.done => ~result.threw
    /\ menuResult.done => ~menuResult.threw

CircularReference == "Circular reference"

CircularPair ==
    Obj(Absent, Absent, <<[name |-> <<"a">>, data |-> Obj(Absent, Str("{b}"), <<>>)],
                          [name |-> <<"b">>, data |-> Obj(Absent, Str("{a}"), <<>>)]>>)

\* C9: a document whose token a aliases {b} and whose token b aliases {a} yields
\* exactly one error, and that error reports a circular reference.
CircularPairYieldsOneCircularError ==
    (result.done /\ doc = CircularPair) =>
        /\ Len(result.errors) = 1
        /\ result.errors[1].message = CircularReference

(***************************************************************************)
(* resolveTokenValue                                                       *)
(*                                                                         *)
(* The node map is a function from node ids 1..MaxResolveNodes, in         *)
(* insertion order; 0 is the undefined id.  Each invocation of             *)
(* resolveTokenValue and each iteration of findTokenType's walk over the   *)
(* parents is one step.                                                    *)
(***************************************************************************)
MaxResolveNodes == 2

ResolveIds == 1..MaxResolveNodes

\* the node at an odd position is named "a", at an even position "b"
NodeName(i) == IF i % 2 = 1 THEN "a" ELSE "b"

ExtendsRefs == {"{a}", "{b}", "{a.b}"}

ResolveMetas ==
    {[nodeType |-> "token-group", type |-> t, value |-> Absent, extends |-> Undefined] :
         t \in {Undefined, "color"}}
    \cup {[nodeType |-> "token", type |-> t, value |-> ColorValue, extends |-> Undefined] :
              t \in {Undefined, "color"}}
    \cup {[nodeType |-> "token", type |-> Undefined, value |-> Absent, extends |-> r] :
              r \in ExtendsRefs}

ParentChoices == {0, 1, 2}

ResolveMaps ==
    {[i \in ResolveIds |->
         [nodeId |-> i,
          parentId |-> c[i].parentId,
          name |-> NodeName(i),
          meta |-> c[i].meta]] :
     c \in {c \in [ResolveIds -> [parentId : ParentChoices, meta : ResolveMetas]] :
                \A i \in ResolveIds : c[i].parentId # i}}

Resolving == "resolving"
FindingType == "findingType"
Running == {Resolving, FindingType}

\* nodesList.find((n) => n.parentId === currentNodeId && n.meta.name === segment)?.nodeId
FindChild(m, currentNodeId, segment) ==
    LET found == {i \in DOMAIN m : m[i].parentId = currentNodeId /\ m[i].name = segment}
    IN IF found = {} THEN 0 ELSE CHOOSE i \in found : \A j \in found : i <= j

\* the loop over the segments
RECURSIVE Navigate(_, _, _)
Navigate(m, segments, currentNodeId) ==
    IF segments = <<>> THEN currentNodeId
    ELSE Navigate(m, Tail(segments), FindChild(m, currentNodeId, Head(segments)))

ValueSchema(type, value) ==
    CASE type = "color" -> value.kind = "colorValue"
      [] type = "dimension" -> value.kind = "dimensionValue"
      [] type = "number" -> value.kind = "number"
      [] type = "fontWeight" -> value.kind \in {"number", "string"}
      [] type = "fontFamily" -> value.kind = "string"
      [] OTHER -> FALSE

\* the end of an invocation once the type is known
ReturnValue(resolvedType, token) ==
    IF resolvedType = Undefined THEN "noType"
    ELSE IF token.value # Absent
    THEN IF ValueSchema(resolvedType, token.value) THEN "value" ELSE "schemaError"
    ELSE "noValue"

ResolveInit ==
    /\ rmap \in ResolveMaps
    /\ rcur = 0
    /\ rstack = {}
    /\ rout = "idle"
    /\ rstart = 0
    /\ rwalk = 0
    /\ StoreInit
    /\ AppIdle
    /\ ParseIdle
    /\ ResolverIdle

\* resolveTokenValue(node, nodes) is called with an empty resolvingStack
CallResolveTokenValue(id) ==
    /\ rout = "idle"
    /\ rcur' = id
    /\ rstart' = id
    /\ rstack' = {}
    /\ rout' = Resolving
    /\ UNCHANGED <<rmap, rwalk, storeVars, parseVars, resolverVars, exportVars, appVars>>

NewStack(resolvingStack, extendsRef) == resolvingStack \cup {extendsRef}

resolveTokenValue ==
    /\ rout = Resolving
    /\ LET token == rmap[rcur].meta
           extendsRef == token.extends
           segments == RefSegments[extendsRef]
           currentNodeId == Navigate(rmap, segments, 0)
       IN IF token.nodeType # "token"
          THEN rout' = "notToken" /\ UNCHANGED <<rcur, rstack, rwalk>>
          ELSE IF extendsRef = Undefined
          THEN IF token.type # Undefined
               THEN /\ rout' = ReturnValue(token.type, token)
                    /\ UNCHANGED <<rcur, rstack, rwalk>>
               ELSE /\ rout' = FindingType
                    /\ rwalk' = rmap[rcur].parentId
                    /\ UNCHANGED <<rcur, rstack>>
          ELSE IF extendsRef \in rstack
          THEN rout' = "circular" /\ UNCHANGED <<rcur, rstack, rwalk>>
          ELSE IF segments = <<>>
          THEN rout' = "invalidReference" /\ UNCHANGED <<rcur, rstack, rwalk>>
          ELSE IF currentNodeId = 0 \/ rmap[currentNodeId].meta.nodeType # "token"
          THEN rout' = "notFound" /\ UNCHANGED <<rcur, rstack, rwalk>>
          ELSE /\ rcur' = currentNodeId
               /\ rstack' = NewStack(rstack, extendsRef)
               /\ UNCHANGED <<rout, rwalk>>
    /\ UNCHANGED <<rmap, rstart, storeVars, parseVars, resolverVars, exportVars, appVars>>

\* one iteration of while (currentParentId !== undefined && currentParentId !== null)
findTokenType ==
    /\ rout = FindingType
    /\ IF rwalk = 0
       THEN /\ rout' = ReturnValue(Undefined, rmap[rcur].meta)
            /\ UNCHANGED rwalk
       ELSE LET parentNode == rmap[rwalk] IN
            IF parentNode.meta.nodeType = "token-group" /\ parentNode.meta.type # Undefined
            THEN /\ rout' = ReturnValue(parentNode.meta.type, rmap[rcur].meta)
                 /\ UNCHANGED rwalk
            ELSE /\ rwalk' = parentNode.parentId
                 /\ UNCHANGED rout
    /\ UNCHANGED <<rmap, rcur, rstack, rstart, storeVars, parseVars, resolverVars, exportVars, appVars>>

ResolveNext ==
    \/ \E id \in ResolveIds : CallResolveTokenValue(id)
    \/ resolveTokenValue
    \/ findTokenType

\* a call runs to completion: JavaScript does not preempt it
SpecResolve ==
    /\ ResolveInit
    /\ [][ResolveNext]_vars
    /\ WF_vars(resolveTokenValue)
    /\ WF_vars(findTokenType)

(***************************************************************************)
(* Properties of resolveTokenValue                                         *)
(***************************************************************************)
\* the node a reference names: every segment is found, from the roots down
RECURSIVE ExactTarget(_, _, _)
ExactTarget(m, segments, currentNodeId) ==
    IF segments = <<>> THEN currentNodeId
    ELSE LET next == FindChild(m, currentNodeId, Head(segments))
         IN IF next = 0 THEN 0 ELSE ExactTarget(m, Tail(segments), next)

\* the alias chain from node i runs through at least n more tokens
RECURSIVE ChainRuns(_, _, _)
ChainRuns(m, i, n) ==
    IF n = 0 THEN TRUE
    ELSE /\ m[i].meta.nodeType = "token"
         /\ m[i].meta.extends # Undefined
         /\ LET t == ExactTarget(m, RefSegments[m[i].meta.extends], 0)
            IN t # 0 /\ m[t].meta.nodeType = "token" /\ ChainRuns(m, t, n - 1)

\* a chain longer than the map revisits a token
ChainHasCycle(m, i) == ChainRuns(m, i, MaxResolveNodes + 1)

AliasCycleEndsCircular ==
    (rout \notin Running \cup {"idle"} /\ ChainHasCycle(rmap, rstart)) => rout = "circular"

\* C10: for every node map and every token node resolveTokenValue terminates,
\* and a token whose alias chain contains a cycle ends with the
\* circular-reference failure.
ResolveTerminates ==
    /\ [](rout \in Running => <>(rout \notin Running))
    /\ []AliasCycleEndsCircular

\* the token the current invocation's reference names, 0 when it names none
ExactTokenTarget ==
    LET t == ExactTarget(rmap, RefSegments[rmap[rcur].meta.extends], 0)
    IN IF t # 0 /\ rmap[t].meta.nodeType = "token" THEN t ELSE 0

\* C11: a reference resolves only to the token reached by matching every segment
\* in order from the roots; when a segment matches no child, or the node reached
\* is not a token, the invocation ends with the not-found failure.
ResolvesOnlyExactPath ==
    [][(/\ rout = Resolving
        /\ rmap[rcur].meta.nodeType = "token"
        /\ rmap[rcur].meta.extends # Undefined
        /\ rmap[rcur].meta.extends \notin rstack)
       => IF ExactTokenTarget = 0
          THEN rout' = "notFound"
          ELSE rcur' = ExactTokenTarget /\ rout' = Resolving]_vars

\* the index keys of the emitted nodes, in emission order
IndexKeysOf(ns) == [i \in 1..Len(ns) |-> ns[i].index]

\* no emitted token holds a reference
NoAliases(ns) ==
    \A i \in 1..Len(ns) : ns[i].meta.nodeType = "token" => ~isTokenReference(ns[i].meta.value)

\* C12: for a document without aliases that parses without errors, parsing the
\* serialized nodes again yields no errors and the same nodes up to nodeId
\* renaming: same paths of names, node types, types, values and sibling order.
RoundTripIsStable ==
    (reparsed.done /\ result.errors = <<>> /\ NoAliases(result.nodes)) =>
        /\ reparsed.errors = <<>>
        /\ Len(reparsed.nodes) = Len(result.nodes)
        /\ Outline(reparsed.nodes) = Outline(result.nodes)
        /\ IndexKeysOf(reparsed.nodes) = IndexKeysOf(result.nodes)

\* the property at a path of names in a serialized document
RECURSIVE PropertyAt(_, _)
PropertyAt(data, path) ==
    IF path = <<>> THEN data
    ELSE LET i == CHOOSE i \in 1..Len(data.entries) : data.entries[i].name = Head(path)
         IN PropertyAt(data.entries[i].data, Tail(path))

\* the list a shadow value stands for
AsShadowList(value) == IF value = ShadowObject THEN ShadowList(1) ELSE value

ShadowTokenNodes(ns) ==
    {i \in 1..Len(ns) : /\ ns[i].meta.nodeType = "token"
                        /\ ns[i].meta.type = "shadow"
                        /\ ns[i].meta.value.kind # "string"}

MaxItems == 2
MaxSources == 2

ArrayOf(items) == [kind |-> "array", items |-> items]

IsArray(v) == v.kind = "array"

NoName == <<>>

\* a record of context names to source arrays
Contexts == [kind |-> "contexts"]

Item(type, name, sources, contexts) ==
    [kind |-> "item", type |-> type, name |-> name, sources |-> sources,
     contexts |-> contexts]

ResolverDocument(version, sets, modifiers, resolutionOrder) ==
    [kind |-> "resolverDocument", version |-> version, sets |-> sets,
     modifiers |-> modifiers, resolutionOrder |-> resolutionOrder]

SupportedVersion == Str("2025.10")

resolverSourceSchema(source) == isObject(source)

resolverSetSchema(item) ==
    /\ item.type = "set"
    /\ nameSchema(item.name)
    /\ IsArray(item.sources)
    /\ \A i \in 1..Len(item.sources.items) : resolverSourceSchema(item.sources.items[i])

resolverModifierSchema(item) ==
    /\ item.type = "modifier"
    /\ nameSchema(item.name)
    /\ item.contexts = Contexts

resolutionOrderItemSchema(item) == resolverSetSchema(item) \/ resolverModifierSchema(item)

\* z.optional(z.strictObject({})): undefined or an object without properties
unsupportedSetsSchema(v) == v = Absent \/ v = EmptyDocument

unsupportedModifiersSchema(v) == v = Absent \/ v = EmptyDocument

resolverDocumentSchemaIgnoringSets(data) ==
    /\ data.kind = "resolverDocument"
    /\ data.version = SupportedVersion
    /\ unsupportedModifiersSchema(data.modifiers)
    /\ IsArray(data.resolutionOrder)
    /\ \A i \in 1..Len(data.resolutionOrder.items) :
           resolutionOrderItemSchema(data.resolutionOrder.items[i])

resolverDocumentSchema(data) ==
    /\ data.kind = "resolverDocument"
    /\ data.version = SupportedVersion
    /\ unsupportedSetsSchema(data.sets)
    /\ unsupportedModifiersSchema(data.modifiers)
    /\ IsArray(data.resolutionOrder)
    /\ \A i \in 1..Len(data.resolutionOrder.items) :
           resolutionOrderItemSchema(data.resolutionOrder.items[i])

(***************************************************************************)
(* isResolverFormat                                                        *)
(***************************************************************************)
\* typeof obj === "object" && obj !== null
TypeofObject(obj) == obj.kind \in {"resolverDocument", "object", "array"}

\* o.version and o.resolutionOrder; undefined on an object without them
VersionOf(o) == IF o.kind = "resolverDocument" THEN o.version ELSE Absent

ResolutionOrderOf(o) == IF o.kind = "resolverDocument" THEN o.resolutionOrder ELSE Absent

isResolverFormatAnyOrder(obj) ==
    IF ~TypeofObject(obj) THEN FALSE
    ELSE VersionOf(obj) = SupportedVersion /\ ResolutionOrderOf(obj) # Absent

isResolverFormat(obj) ==
    IF ~TypeofObject(obj) THEN FALSE
    ELSE VersionOf(obj) = SupportedVersion /\ IsArray(ResolutionOrderOf(obj))

(***************************************************************************)
(* mergeSources                                                            *)
(*                                                                         *)
(* Sources are records of groups and tokens: they have no $value of their  *)
(* own, and deepMerge enters only objects without $value, so the key       *)
(* $value is never visited.                                                *)
(***************************************************************************)
\* target[key]
GetProperty(target, key) ==
    IF key = <<"$type">> THEN target.type
    ELSE IF \E i \in 1..Len(target.entries) : target.entries[i].name = key
    THEN LET i == CHOOSE i \in 1..Len(target.entries) : target.entries[i].name = key
         IN target.entries[i].data
    ELSE Absent

\* target[key] = value
SetProperty(target, key, value) ==
    IF key = <<"$type">> THEN [target EXCEPT !.type = value]
    ELSE [target EXCEPT !.entries = AssignProperty(@, key, value)]

RECURSIVE deepMerge(_, _), deepMergeEntries(_, _, _)
deepMergeEntries(target, entries, i) ==
    IF i > Len(entries) THEN target
    ELSE LET key == entries[i].name
             value == entries[i].data
             current == GetProperty(target, key)
         IN IF isObject(value) /\ value.value = Absent /\ isObject(current)
            THEN deepMergeEntries(SetProperty(target, key, deepMerge(current, value)),
                                  entries, i + 1)
            ELSE deepMergeEntries(SetProperty(target, key, value), entries, i + 1)

deepMerge(target, source) == deepMergeEntries(target, ObjectEntries(source), 1)

RECURSIVE mergeFrom(_, _, _)
mergeFrom(merged, sources, i) ==
    IF i > Len(sources) THEN merged
    ELSE mergeFrom(deepMerge(merged, sources[i]), sources, i + 1)

mergeSources(sources) == mergeFrom(EmptyDocument, sources, 1)

(***************************************************************************)
(* The same merge on the objects themselves.  An object is known by the    *)
(* source it was written in and its path there; the fresh object `merged`  *)
(* is source 0.  A property holds a plain value or a reference to an       *)
(* object, and `target[key] = value` stores the reference it was given.    *)
(***************************************************************************)
Address(source, path) == [source |-> source, path |-> path]

Reference(address) == [kind |-> "reference", address |-> address]

isReference(value) == value.kind = "reference"

RECURSIVE ObjectsOf(_, _)
ObjectsOf(data, address) ==
    LET child(i) == Address(address.source, Append(address.path, data.entries[i].name))
        object == [data EXCEPT !.entries =
                      [i \in 1..Len(data.entries) |->
                          [name |-> data.entries[i].name,
                           data |-> IF isObject(data.entries[i].data)
                                    THEN Reference(child(i))
                                    ELSE data.entries[i].data]]]
    IN {<<address, object>>}
       \cup UNION {ObjectsOf(data.entries[i].data, child(i))
                     : i \in {k \in 1..Len(data.entries) : isObject(data.entries[k].data)}}

\* const merged = {} next to the objects of the sources
ObjectsOfSources(sources) ==
    LET objects == {<<Address(0, <<>>), EmptyDocument>>}
                   \cup UNION {ObjectsOf(sources[s], Address(s, <<>>)) : s \in 1..Len(sources)}
    IN [address \in {o[1] : o \in objects} |->
           (CHOOSE o \in objects : o[1] = address)[2]]

RECURSIVE deepMergeInPlace(_, _, _), deepMergeEntriesInPlace(_, _, _, _)
deepMergeEntriesInPlace(objects, target, entries, i) ==
    IF i > Len(entries) THEN objects
    ELSE LET key == entries[i].name
             value == entries[i].data
             current == GetProperty(objects[target], key)
         IN IF /\ isReference(value)
               /\ objects[value.address].value = Absent
               /\ isReference(current)
            THEN deepMergeEntriesInPlace(
                     deepMergeInPlace(objects, current.address, value.address),
                     target, entries, i + 1)
            ELSE deepMergeEntriesInPlace(
                     [objects EXCEPT ![target] = SetProperty(@, key, value)],
                     target, entries, i + 1)

deepMergeInPlace(objects, target, source) ==
    deepMergeEntriesInPlace(objects, target, ObjectEntries(objects[source]), 1)

RECURSIVE mergeFromInPlace(_, _, _)
mergeFromInPlace(objects, sources, i) ==
    IF i > Len(sources) THEN objects
    ELSE mergeFromInPlace(deepMergeInPlace(objects, Address(0, <<>>), Address(i, <<>>)),
                          sources, i + 1)

\* the document an object stands for
RECURSIVE Contents(_, _)
Contents(objects, address) ==
    LET object == objects[address]
    IN [object EXCEPT !.entries =
           [i \in 1..Len(object.entries) |->
               [name |-> object.entries[i].name,
                data |-> IF isReference(object.entries[i].data)
                         THEN Contents(objects, object.entries[i].data.address)
                         ELSE object.entries[i].data]]]

\* the source objects of a set as mergeSources leaves them
SourcesAfterMerge(sources) ==
    LET objects == mergeFromInPlace(ObjectsOfSources(sources), sources, 1)
    IN [s \in 1..Len(sources) |-> Contents(objects, Address(s, <<>>))]

\* the object mergeSources returns
MergedInPlace(sources) ==
    Contents(mergeFromInPlace(ObjectsOfSources(sources), sources, 1), Address(0, <<>>))

(***************************************************************************)
(* parseTokenResolver                                                      *)
(*                                                                         *)
(* crypto.randomUUID() hands out the next unused number.  The result also  *)
(* records, per set, the merged sources that were parsed and the sources   *)
(* of the set as the call leaves them, and with every error the rank of    *)
(* the set whose parse recorded it (0 for the schema error).               *)
(***************************************************************************)
RECURSIVE MaxNodeId(_)
MaxNodeId(ns) ==
    IF ns = <<>> THEN 0
    ELSE LET rest == MaxNodeId(Tail(ns))
         IN IF Head(ns).nodeId > rest THEN Head(ns).nodeId ELSE rest

\* if (node.parentId === undefined) node.parentId = setNodeId
ReparentFirstSet(node, setNodeId) ==
    [node EXCEPT !.nodeId = @ + setNodeId,
                 !.parentId = IF @ = NoParent THEN 1 ELSE @ + setNodeId]

Reparent(node, setNodeId) ==
    [node EXCEPT !.nodeId = @ + setNodeId,
                 !.parentId = IF @ = NoParent THEN setNodeId ELSE @ + setNodeId]

\* generateKeyBetween(prevSetIndex ?? zeroIndex, null)
NextSetIndexFromZero(prevSetIndex) == generateKeyAfter(zeroIndex)

NextSetIndex(prevSetIndex) ==
    generateKeyAfter(IF prevSetIndex = <<>> THEN zeroIndex ELSE prevSetIndex)

\* collectedErrors.push(...parseResult.errors)
CollectErrors(errors, rank) ==
    [e \in 1..Len(errors) |->
        [path |-> errors[e].path, message |-> errors[e].message, set |-> rank]]

RECURSIVE processItems(_, _, _, _)
processItems(items, i, acc, prevSetIndex) ==
    IF i > Len(items) THEN acc
    ELSE IF items[i].type = "modifier" THEN processItems(items, i + 1, acc, prevSetIndex)
    ELSE LET set == items[i]
             mergedSetSources == mergeSources(set.sources.items)
             parseResult == parseDesignTokens(mergedSetSources)
             setNodeId == MaxNodeId(acc.nodes) + 1
             setIndex == NextSetIndex(prevSetIndex)
             setNode == [nodeId |-> setNodeId, parentId |-> NoParent, index |-> setIndex,
                         meta |-> [nodeType |-> "token-set", name |-> set.name,
                                   type |-> Undefined, value |-> Absent]]
         IN processItems(items, i + 1,
                [nodes |-> acc.nodes \o <<setNode>>
                           \o [k \in 1..Len(parseResult.nodes) |->
                                  Reparent(parseResult.nodes[k], setNodeId)],
                 errors |-> acc.errors
                            \o CollectErrors(parseResult.errors, Len(acc.merged) + 1),
                 merged |-> Append(acc.merged, mergedSetSources),
                 sources |-> Append(acc.sources, SourcesAfterMerge(set.sources.items))],
                setIndex)

parseTokenResolver(data) ==
    IF ~resolverDocumentSchema(data)
    THEN [done |-> TRUE, nodes |-> <<>>,
          errors |-> <<[path |-> <<"resolver">>, message |-> "schema", set |-> 0]>>,
          merged |-> <<>>, sources |-> <<>>]
    ELSE LET all == processItems(data.resolutionOrder.items, 1,
                                 [nodes |-> <<>>, errors |-> <<>>, merged |-> <<>>,
                                  sources |-> <<>>], <<>>)
         IN [done |-> TRUE, nodes |-> all.nodes, errors |-> all.errors,
             merged |-> all.merged, sources |-> all.sources]

(***************************************************************************)
(* Resolver specification                                                  *)
(***************************************************************************)
ValidHeader == ResolverDocument(SupportedVersion, Absent, Absent, ArrayOf(<<>>))

PopulatedObject == Obj(Absent, Absent, <<[name |-> <<"a">>, data |-> EmptyDocument]>>)

ResolverInputs ==
    {ValidHeader,
     ResolverDocument(SupportedVersion, EmptyDocument, EmptyDocument, ArrayOf(<<>>)),
     ResolverDocument(Str("2024.01"), Absent, Absent, ArrayOf(<<>>)),
     ResolverDocument(Absent, Absent, Absent, ArrayOf(<<>>)),
     ResolverDocument(SupportedVersion, PopulatedObject, Absent, ArrayOf(<<>>)),
     ResolverDocument(SupportedVersion, Absent, PopulatedObject, ArrayOf(<<>>)),
     ResolverDocument(SupportedVersion, Absent, Absent, Absent),
     ResolverDocument(SupportedVersion, Absent, Absent, Str("not an array")),
     NullValue, Str("not an object"), NumberValue, ArrayValue, EmptyDocument}

ColorToken == Obj(Str("color"), ColorValue, <<>>)

SourceDocuments ==
    {Obj(Absent, Absent, <<[name |-> <<"a">>, data |-> ColorToken]>>),
     Obj(Absent, Absent, <<[name |-> <<"b">>, data |-> Obj(Str("dimension"), DimensionValue, <<>>)]>>),
     Obj(Absent, Absent,
         <<[name |-> <<"a">>,
            data |-> Obj(Absent, Absent, <<[name |-> <<"b">>, data |-> ColorToken]>>)]>>),
     Obj(Absent, Absent, <<[name |-> <<"b">>, data |-> Obj(Str("color"), DimensionValue, <<>>)]>>),
     Obj(Absent, Absent,
         <<[name |-> <<"a">>,
            data |-> Obj(Str("dimension"), Absent,
                         <<[name |-> <<"a">>, data |-> Obj(Absent, DimensionValue, <<>>)]>>)]>>)}

ItemTemplates ==
    {Item("set", <<"a">>, ArrayOf(<<>>), Absent),
     Item("set", <<"b">>, ArrayOf(<<>>), Absent),
     Item("modifier", <<"a">>, Absent, Contexts),
     Item("set", NoName, ArrayOf(<<>>), Absent),
     Item("set", <<"a">>, Absent, Absent),
     Item("modifier", <<"a">>, Absent, Absent)}

HasItems(data) == data.kind = "resolverDocument" /\ IsArray(data.resolutionOrder)

RECURSIVE CountSources(_)
CountSources(items) ==
    IF items = <<>> THEN 0
    ELSE (IF IsArray(Head(items).sources) THEN Len(Head(items).sources.items) ELSE 0)
         + CountSources(Tail(items))

ResolverInit ==
    /\ resolverInput \in ResolverInputs
    /\ format = NoResult
    /\ resolved = NoResult
    /\ output = NoResult
    /\ StoreInit
    /\ AppIdle
    /\ ParseIdle
    /\ ResolveIdle

\* the caller appends an item to resolutionOrder
WriteItem(item) ==
    /\ ~format.done /\ ~resolved.done
    /\ HasItems(resolverInput)
    /\ Len(resolverInput.resolutionOrder.items) < MaxItems
    /\ resolverInput' = [resolverInput EXCEPT !.resolutionOrder.items = Append(@, item)]
    /\ UNCHANGED <<format, resolved, storeVars, parseVars, resolveVars, exportVars, appVars>>

\* the caller appends a source to the sources of the last item
WriteSource(source) ==
    /\ ~format.done /\ ~resolved.done
    /\ HasItems(resolverInput)
    /\ LET items == resolverInput.resolutionOrder.items IN
           /\ items # <<>>
           /\ IsArray(items[Len(items)].sources)
           /\ CountSources(items) < MaxSources
           /\ resolverInput' =
                  [resolverInput EXCEPT
                      !.resolutionOrder.items[Len(items)].sources.items = Append(@, source)]
    /\ UNCHANGED <<format, resolved, storeVars, parseVars, resolveVars, exportVars, appVars>>

CallIsResolverFormat ==
    /\ ~format.done /\ ~resolved.done
    /\ format' = [done |-> TRUE, value |-> isResolverFormat(resolverInput)]
    /\ UNCHANGED <<resolverInput, resolved, storeVars, parseVars, resolveVars, exportVars, appVars>>

CallParseTokenResolver ==
    /\ ~resolved.done
    /\ resolved' = parseTokenResolver(resolverInput)
    /\ UNCHANGED <<resolverInput, format, storeVars, parseVars, resolveVars, exportVars, appVars>>

ResolverNext ==
    \/ \E item \in ItemTemplates : WriteItem(item)
    \/ \E source \in SourceDocuments : WriteSource(source)
    \/ CallIsResolverFormat
    \/ CallParseTokenResolver

SpecResolver == ResolverInit /\ [][ResolverNext]_vars

(***************************************************************************)
(* Resolver properties                                                     *)
(***************************************************************************)
ItemLacksProperty(item) ==
    \/ item.name = NoName
    \/ item.type = "set" /\ item.sources = Absent
    \/ item.type = "modifier" /\ item.contexts = Absent

\* the ways an input can fail the resolver document schema
FailsResolverSchema(data) ==
    \/ data.kind # "resolverDocument"
    \/ data.version # SupportedVersion
    \/ data.sets \notin {Absent, EmptyDocument}
    \/ data.modifiers \notin {Absent, EmptyDocument}
    \/ ~IsArray(data.resolutionOrder)
    \/ \E i \in 1..Len(data.resolutionOrder.items) :
           ItemLacksProperty(data.resolutionOrder.items[i])

IsSetItem(item) == item.type = "set"

IsSetNode(node) == node.meta.nodeType = "token-set"

\* C14: when the input fails the resolver document schema, parseTokenResolver
\* returns no node and exactly one error, at the path "resolver".
SchemaFailureIsOneResolverError ==
    (resolved.done /\ FailsResolverSchema(resolverInput)) =>
        /\ resolved.nodes = <<>>
        /\ Len(resolved.errors) = 1
        /\ resolved.errors[1].path = <<"resolver">>

SchemaFailureWitness ==
    /\ resolved.done
    /\ HasItems(resolverInput)
    /\ resolved.nodes = <<>>
    /\ \E i, j \in 1..Len(resolverInput.resolutionOrder.items) :
           /\ ItemLacksProperty(resolverInput.resolutionOrder.items[i])
           /\ resolverSetSchema(resolverInput.resolutionOrder.items[j])
           /\ resolverInput.resolutionOrder.items[j].sources.items # <<>>

\* C15: on a valid resolver document the token-set nodes are, in order, the
\* set items of resolutionOrder: same number, same names, no parent, and
\* index keys strictly ascending.
OneSetNodePerSetItem ==
    (resolved.done /\ ~FailsResolverSchema(resolverInput)) =>
        LET sets == SelectSeq(resolverInput.resolutionOrder.items, IsSetItem)
            setNodes == SelectSeq(resolved.nodes, IsSetNode)
        IN /\ Len(setNodes) = Len(sets)
           /\ \A k \in 1..Len(setNodes) :
                  /\ setNodes[k].parentId = NoParent
                  /\ setNodes[k].meta.name = sets[k].name
                  /\ k > 1 => StrLess(setNodes[k - 1].index, setNodes[k].index)

SetNodesWitness ==
    /\ resolved.done
    /\ ~FailsResolverSchema(resolverInput)
    /\ LET items == resolverInput.resolutionOrder.items IN
           /\ Len(items) = MaxItems
           /\ \A i \in 1..Len(items) : IsSetItem(items[i])
           /\ \E i \in 1..Len(items) : items[i].sources.items = <<>>
           /\ \E i \in 1..Len(items) : items[i].sources.items # <<>>
    /\ Len(SelectSeq(resolved.nodes, IsSetNode)) = MaxItems

\* the token-set nodes among a node and its ancestors
RECURSIVE SetsOnChain(_, _)
SetsOnChain(ns, id) ==
    IF id = NoParent THEN {}
    ELSE LET n == CHOOSE n \in {ns[i] : i \in 1..Len(ns)} : n.nodeId = id
         IN (IF IsSetNode(n) THEN {id} ELSE {}) \cup SetsOnChain(ns, n.parentId)

\* the number of token-set nodes among the first p nodes
SetRank(ns, p) == Len(SelectSeq(SubSeq(ns, 1, p), IsSetNode))

RECURSIVE PathsOf(_)
PathsOf(data) ==
    IF ~isObject(data) THEN {}
    ELSE UNION {{<<data.entries[i].name>>}
                \cup {<<data.entries[i].name>> \o p : p \in PathsOf(data.entries[i].data)} :
                i \in 1..Len(data.entries)}

HasPath(data, path) == path \in PathsOf(data)

\* the last source that defines the path
LastDefining(sources, path) ==
    LET i == CHOOSE i \in 1..Len(sources) :
                 /\ HasPath(sources[i], path)
                 /\ \A j \in (i + 1)..Len(sources) : ~HasPath(sources[j], path)
    IN sources[i]

\* C17: at every path of the merged sources of a set, a token object (an
\* object with $value) or a value that is no object is the content of the
\* last source defining the path, and where that source has a token object
\* the merged content is that object as a whole.
MergeKeepsTokensWhole ==
    (resolved.done /\ ~FailsResolverSchema(resolverInput)) =>
        LET sets == SelectSeq(resolverInput.resolutionOrder.items, IsSetItem) IN
        \A k \in 1..Len(sets) :
            \A path \in PathsOf(resolved.merged[k]) :
                LET last == PropertyAt(LastDefining(sets[k].sources.items, path), path)
                    merged == PropertyAt(resolved.merged[k], path)
                IN (isTokenObject(last) \/ isTokenObject(merged) \/ ~isObject(merged))
                       => merged = last

\* C18: isResolverFormat(x) is true exactly when x is an object whose version
\* is "2025.10" and whose resolutionOrder is an array.
FormatIsVersionAndOrder ==
    format.done =>
        (format.value <=>
            /\ resolverInput.kind = "resolverDocument"
            /\ resolverInput.version = Str("2025.10")
            /\ resolverInput.resolutionOrder.kind = "array")

FormatWitness ==
    /\ format.done
    /\ format.value
    /\ resolverInput.resolutionOrder.items # <<>>
    /\ resolverInput.sets # Absent \/ ItemLacksProperty(resolverInput.resolutionOrder.items[1])

(***************************************************************************)
(* Reads of the stored nodes                                               *)
(*                                                                         *)
(* The store holds node objects; a read hands out those objects, so an     *)
(* assignment to a property of a node it was handed changes the stored     *)
(* node.                                                                   *)
(***************************************************************************)
\* TreeState.nodes(): the Map of the stored node objects
StoredNodes == nodes

\* the nodes importNodes sets: a token-set node named Base, then every node,
\* the root ones re-parented to it
BaseSetNode(ns) ==
    [nodeId |-> MaxNodeId(ns) + 1, parentId |-> NoParent, index |-> zeroIndex,
     meta |-> [nodeType |-> "token-set", name |-> <<"Base">>,
               type |-> Undefined, value |-> Absent]]

importNodes(ns) ==
    LET tokenSetNode == BaseSetNode(ns)
    IN <<tokenSetNode>>
       \o [i \in 1..Len(ns) |->
              IF ns[i].parentId = NoParent
              THEN [ns[i] EXCEPT !.parentId = tokenSetNode.nodeId]
              ELSE ns[i]]

\* processNode: a group passes its name on to its children, a token pushes
\* its declarations, any other node does nothing
RECURSIVE processNode(_, _, _), processNodes(_, _, _)
processNode(ns, node, path) ==
    IF node.meta.nodeType = "token-group"
    THEN processNodes(ns, Sort(Filter(ns, node.nodeId)), Append(path, node.meta.name))
    ELSE IF node.meta.nodeType = "token"
    THEN <<[node |-> node.nodeId, property |-> Append(path, node.meta.name)]>>
    ELSE <<>>

processNodes(ns, children, path) ==
    IF children = <<>> THEN <<>>
    ELSE processNode(ns, Head(children), path) \o processNodes(ns, Tail(children), path)

\* the declarations between ":root {" and "}"
generateCssVariables(ns) == processNodes(ns, Sort(Filter(ns, NoParent)), <<>>)

\* jsonOutput: the copied Map without the set nodes
FilteredNodes(ns) == SelectSeq(ns, LAMBDA n : n.meta.nodeType # "token-set")

SetIds(ns) == {ns[i].nodeId : i \in {j \in 1..Len(ns) : ns[j].meta.nodeType = "token-set"}}

\* node.parentId = undefined on every node object whose parent is a set
ReRooted(ns) ==
    [i \in 1..Len(ns) |->
        IF ns[i].meta.nodeType # "token-set" /\ ns[i].parentId \in SetIds(ns)
        THEN [ns[i] EXCEPT !.parentId = NoParent]
        ELSE ns[i]]

jsonOutput(ns) == serializeDesignTokens(FilteredNodes(ReRooted(ns)))

ExportDocuments == SourceDocuments \cup ShadowDocuments

ExportInit ==
    /\ doc \in ExportDocuments
    /\ result = NoResult
    /\ menuResult = NoResult
    /\ json = NoResult
    /\ reparsed = NoResult
    /\ StoreInit
    /\ AppIdle
    /\ ResolveIdle
    /\ ResolverIdle

\* a caller stores the parsed nodes with set calls in one transact: as they
\* are, or as importNodes arranges them
StoreParsedNodes(underSet) ==
    /\ result.done /\ ~output.done
    /\ nodes = <<>>
    /\ result.nodes # <<>>
    /\ nodes' = IF underSet THEN importNodes(result.nodes) ELSE result.nodes
    /\ UNCHANGED <<subscribers, stack, ref, lastTx, wellFormed, observed, ops>>
    /\ UNCHANGED <<parseVars, resolveVars, resolverVars, exportVars, appVars>>

ReadValues ==
    /\ nodes # <<>> /\ ~output.done
    /\ output' = [done |-> TRUE, kind |-> "values", value |-> StoredNodes]
    /\ UNCHANGED <<storeVars, parseVars, resolveVars, resolverVars, appVars>>

ReadChildren(parentId) ==
    /\ nodes # <<>> /\ ~output.done
    /\ output' = [done |-> TRUE, kind |-> "getChildren",
                  value |-> Sort(Filter(StoredNodes, parentId))]
    /\ UNCHANGED <<storeVars, parseVars, resolveVars, resolverVars, appVars>>

ReadCss ==
    /\ nodes # <<>> /\ ~output.done
    /\ output' = [done |-> TRUE, kind |-> "css",
                  value |-> generateCssVariables(StoredNodes)]
    /\ UNCHANGED <<storeVars, parseVars, resolveVars, resolverVars, appVars>>

ReadJson ==
    /\ nodes # <<>> /\ ~output.done
    /\ output' = [done |-> TRUE, kind |-> "json", value |-> jsonOutput(StoredNodes)]
    /\ nodes' = ReRooted(StoredNodes)
    /\ UNCHANGED <<subscribers, stack, ref, lastTx, wellFormed, observed, ops>>
    /\ UNCHANGED <<parseVars, resolveVars, resolverVars, appVars>>

ExportNext ==
    \/ CallParseDesignTokens
    \/ \E underSet \in BOOLEAN : StoreParsedNodes(underSet)
    \/ ReadValues
    \/ \E p \in 0..MaxEntries : ReadChildren(p)
    \/ ReadCss
    \/ ReadJson

SpecExport == ExportInit /\ [][ExportNext]_vars

\* C19: the css output has a declaration for every stored token node, all of
\* which hang from a root through their parent links, and none for a group
\* or set node.
CssDeclaresEveryToken ==
    (output.done /\ output.kind = "css") =>
        \A i \in 1..Len(nodes) :
            (nodes[i].meta.nodeType = "token")
                <=> \E d \in 1..Len(output.value) : output.value[d].node = nodes[i].nodeId

\* C20: a read leaves every stored node as it was and starts no notification.
ReadsLeaveStoreUnchanged ==
    [][output' # output => (nodes' = nodes /\ subscribers' = subscribers /\ stack' = stack)]_vars

(***************************************************************************)
(* Errors of parseDesignTokens                                             *)
(***************************************************************************)
\* the number of emitted nodes at a path of names
EmittedAt(ns, path) ==
    Cardinality({i \in 1..Len(ns) : NamePath(ns, ns[i].nodeId) = path})

\* the number of recorded errors at a joined path
ErrorsAt(errors, key) == Cardinality({i \in 1..Len(errors) : errors[i].path = key})

\* C21: a token that passes name and shape validation is emitted once with
\* no error at its path, or not emitted with exactly one error at its path.
TokenIsNodeOrOneError ==
    result.done =>
        \A v \in ValidNodes(doc) :
            isTokenNode(v) =>
                LET emitted == EmittedAt(result.nodes, v.path)
                    failed == ErrorsAt(result.errors, Join(v.path))
                IN \/ emitted = 1 /\ failed = 0
                   \/ emitted = 0 /\ failed = 1

\* the valid tokens of the input a reference spells the path of
ReferencedTokens(data, value) ==
    {t \in ValidNodes(data) : isTokenNode(t) /\ Join(t.path) = RefSegments[value.str]}

\* C22: a token whose $value is a reference that matches no token of the
\* document has an error at its path.
DanglingReferenceIsAnError ==
    result.done =>
        \A v \in ValidNodes(doc) :
            (/\ isTokenNode(v)
             /\ isTokenReference(v.data.value)
             /\ ReferencedTokens(doc, v.data.value) = {})
                => ErrorsAt(result.errors, Join(v.path)) >= 1

(***************************************************************************)
(* Documents with reserved keys                                            *)
(***************************************************************************)
DescriptionEntries == {<<>>, <<[name |-> <<"$description">>, data |-> Str("text")]>>}

ReservedDocuments ==
    {Obj(rootType, Absent,
         rootDescription
         \o <<[name |-> <<"a">>,
               data |-> Obj(groupType, Absent,
                            groupDescription \o <<[name |-> <<"b">>, data |-> payload]>>)]>>) :
        rootType \in GroupTypeProps, rootDescription \in DescriptionEntries,
        groupType \in GroupTypeProps, groupDescription \in DescriptionEntries,
        payload \in LeafPayloads}

ReservedInit ==
    /\ doc \in ReservedDocuments
    /\ result = NoResult
    /\ menuResult = NoResult
    /\ json = NoResult
    /\ reparsed = NoResult
    /\ StoreInit
    /\ AppIdle
    /\ ResolveIdle
    /\ ResolverIdle

ReservedNext ==
    \/ CallParseDesignTokens
    \/ CallSerializeDesignTokens

SpecReserved == ReservedInit /\ [][ReservedNext]_vars

\* a key beginning with "$" other than "$root"
IsReservedKey(name) == name \in {<<k>> : k \in ReservedSegments \ {"$root"}}

\* a joined path whose last segment is such a key
EndsInReservedKey(key) == key # <<>> /\ IsReservedKey(<<key[Len(key)]>>)

\* C30: no node is named by a key beginning with "$" other than "$root", and
\* no error is recorded at a path ending in such a key.
ReservedKeysAreSkipped ==
    result.done =>
        /\ \A i \in 1..Len(result.nodes) : ~IsReservedKey(result.nodes[i].meta.name)
        /\ \A i \in 1..Len(result.errors) : ~EndsInReservedKey(result.errors[i].path)

\* C23: errors recorded while parsing different sets have different paths.
ErrorsAreScopedBySet ==
    resolved.done =>
        \A i, j \in 1..Len(resolved.errors) :
            resolved.errors[i].set # resolved.errors[j].set
                => resolved.errors[i].path # resolved.errors[j].path

\* the rank of the property at a path of names among its parent's properties
EntryRank(data, path) ==
    LET entries == PropertyAt(data, SubSeq(path, 1, Len(path) - 1)).entries
    IN CHOOSE k \in 1..Len(entries) : entries[k].name = path[Len(path)]

SetItems(data) ==
    LET items == data.resolutionOrder.items
        RECURSIVE From(_)
        From(i) == IF i > Len(items) THEN <<>>
                   ELSE (IF items[i].type = "set" THEN <<items[i]>> ELSE <<>>) \o From(i + 1)
    IN From(1)

\* both ways of computing the merge agree on the object returned
MergeAgrees ==
    (resolved.done /\ resolverDocumentSchema(resolverInput)) =>
        \A k \in 1..Len(resolved.merged) :
            resolved.merged[k] = MergedInPlace(SetItems(resolverInput)[k].sources.items)

\* C25: after parseTokenResolver every source object of every set, nested
\* groups included, has the keys and values it had before the call.
SourcesAreUnchanged ==
    (resolved.done /\ resolverDocumentSchema(resolverInput)) =>
        \A k \in 1..Len(resolved.sources) :
            resolved.sources[k] = SetItems(resolverInput)[k].sources.items

(***************************************************************************)
(* TreeState with URL sync                                                 *)
(*                                                                         *)
(* transact runs the store transaction and then, when #syncToUrl is set,   *)
(* #updateUrl: the nodes are serialized at once and setDataInUrl is called *)
(* without being awaited.  setDataInUrl awaits compressData, which awaits  *)
(* the reads of its own compression stream, and writes the url when that   *)
(* promise settles; nothing orders two calls in flight.                    *)
(***************************************************************************)
MaxPending == 2

\* JSON.stringify, gzip, btoa
compressData(data) ==
    [kind |-> "base64", of |-> [kind |-> "gzip", of |-> [kind |-> "json", of |-> data]]]

\* the projects a transaction leaves in the store
UrlDocuments == SourceDocuments \cup {EmptyDocument}

UrlInit ==
    /\ StoreInit
    /\ ParseIdle
    /\ ResolveIdle
    /\ ResolverIdle
    /\ AppIdle

enableUrlSync ==
    /\ ~syncToUrl
    /\ syncToUrl' = TRUE
    /\ UNCHANGED <<url, pending, lastSynced>>
    /\ UNCHANGED <<storeVars, parseVars, resolveVars, resolverVars, exportVars,
                   cssVars, importVars>>

\* treeState.transact with a callback that leaves the nodes of data in the store
TransactAndSync(data) ==
    /\ Len(pending) < MaxPending
    /\ nodes' = parseDesignTokens(data).nodes
    /\ lastSynced' = syncToUrl
    /\ pending' = IF syncToUrl THEN Append(pending, serializeDesignTokens(nodes'))
                  ELSE pending
    /\ UNCHANGED <<url, syncToUrl>>
    /\ UNCHANGED <<subscribers, stack, ref, lastTx, wellFormed, observed, ops>>
    /\ UNCHANGED <<parseVars, resolveVars, resolverVars, exportVars, cssVars, importVars>>

\* setDataInUrl resumes after `await compressData(data)`
setDataInUrl(i) ==
    /\ i \in 1..Len(pending)
    /\ url' = compressData(pending[i])
    /\ pending' = SubSeq(pending, 1, i - 1) \o SubSeq(pending, i + 1, Len(pending))
    /\ UNCHANGED <<syncToUrl, lastSynced>>
    /\ UNCHANGED <<storeVars, parseVars, resolveVars, resolverVars, exportVars,
                   cssVars, importVars>>

UrlNext ==
    \/ enableUrlSync
    \/ \E data \in UrlDocuments : TransactAndSync(data)
    \/ \E i \in 1..MaxPending : setDataInUrl(i)

SpecUrl == UrlInit /\ [][UrlNext]_vars

\* C26: with URL sync enabled, once no setDataInUrl call is pending the url's
\* data parameter encodes the store as the last transaction left it.
UrlHoldsLastTransaction ==
    (lastSynced /\ pending = <<>>) => url = compressData(serializeDesignTokens(nodes))

(***************************************************************************)
(* referenceToVariable                                                     *)
(*                                                                         *)
(* The node map is built by transactions that set one node each; the walk  *)
(* up the parentId links is one step per loop iteration.  The path the     *)
(* loop collects does not influence it and is left out.  A node that is    *)
(* its own parent is left out of the universe: the walk over a parent      *)
(* cycle of two nodes shows the same loop with a changing currentId.       *)
(***************************************************************************)
CssNodes == {n \in TreeNode : n.parentId # n.nodeId}

CssInit ==
    /\ StoreInit
    /\ ParseIdle
    /\ ResolveIdle
    /\ ResolverIdle
    /\ AppIdle

\* treeState.transact((tx) => tx.set(node))
TransactSet(node) ==
    /\ cssWalk = "idle"
    /\ nodes' = MapSet(nodes, node)
    /\ UNCHANGED <<subscribers, stack, ref, lastTx, wellFormed, observed, ops>>
    /\ UNCHANGED <<parseVars, resolveVars, resolverVars, exportVars, urlVars, cssVars,
                   importVars>>

\* let currentId = nodeRef.ref
CallReferenceToVariable(nodeRef) ==
    /\ cssWalk = "idle"
    /\ currentId' = nodeRef
    /\ cssWalk' = "walking"
    /\ UNCHANGED <<storeVars, parseVars, resolveVars, resolverVars, exportVars, urlVars,
                   importVars>>

\* one evaluation of the loop condition and, when it holds, of the body
referenceToVariable ==
    /\ cssWalk = "walking"
    /\ IF currentId = Undefined \/ ~MapHas(nodes, currentId)
       THEN cssWalk' = "done" /\ UNCHANGED currentId
       ELSE currentId' = MapGet(nodes, currentId).parentId /\ UNCHANGED cssWalk
    /\ UNCHANGED <<storeVars, parseVars, resolveVars, resolverVars, exportVars, urlVars,
                   importVars>>

CssNext ==
    \/ \E node \in CssNodes : TransactSet(node)
    \/ \E nodeRef \in NodeIds : CallReferenceToVariable(nodeRef)
    \/ referenceToVariable

\* a call runs to completion: JavaScript does not preempt it
SpecCss ==
    /\ CssInit
    /\ [][CssNext]_vars
    /\ WF_vars(referenceToVariable)

\* C27: over every node map built through store transactions a call of
\* referenceToVariable returns.
ReferenceToVariableTerminates == [](cssWalk = "walking" => <>(cssWalk = "done"))

(***************************************************************************)
(* serializeDesignTokens over stored node maps                             *)
(*                                                                         *)
(* Nodes are stored one set at a time; a node is a group or a colour token *)
(* named "a" or "b", under the root or under any node id.                  *)
(***************************************************************************)
MaxStoredNodes == 2

StoredNodeIds == 1..MaxStoredNodes

StoredIndexKeys == {<<97, 49>>, <<97, 50>>}

StoredMetas ==
    {[nodeType |-> "token-group", name |-> name, type |-> Undefined, value |-> Absent]
        : name \in {<<"a">>, <<"b">>}}
    \cup {[nodeType |-> "token", name |-> name, type |-> "color", value |-> ColorValue]
        : name \in {<<"a">>, <<"b">>}}

SerializeInit ==
    /\ StoreInit
    /\ ParseIdle
    /\ ResolveIdle
    /\ ResolverIdle
    /\ AppIdle

\* treeState.transact((tx) => tx.set(node))
TransactSetNode(node) ==
    /\ ~json.done
    /\ nodes' = MapSet(nodes, node)
    /\ UNCHANGED <<subscribers, stack, ref, lastTx, wellFormed, observed, ops>>
    /\ UNCHANGED <<parseVars, resolveVars, resolverVars, exportVars, appVars>>

\* serializeDesignTokens(this.#store.nodes())
SerializeStoredNodes ==
    /\ ~json.done
    /\ json' = [done |-> TRUE, output |-> serializeDesignTokens(nodes)]
    /\ UNCHANGED <<doc, result, menuResult, reparsed, storeVars, resolveVars, resolverVars,
                   exportVars, appVars>>

SerializeNext ==
    \/ \E nodeId \in StoredNodeIds, parentId \in StoredNodeIds \cup {NoParent},
          index \in StoredIndexKeys, meta \in StoredMetas :
              TransactSetNode([nodeId |-> nodeId, parentId |-> parentId,
                               index |-> index, meta |-> meta])
    \/ SerializeStoredNodes

SpecSerialize == SerializeInit /\ [][SerializeNext]_vars

\* every parentId is undefined or the id of a group node of the map
ParentsAreGroups(ns) ==
    \A i \in 1..Len(ns) :
        \/ ns[i].parentId = NoParent
        \/ /\ MapHas(ns, ns[i].parentId)
           /\ MapGet(ns, ns[i].parentId).meta.nodeType = "token-group"

\* following parentId from id reaches the root within fuel links
RECURSIVE Rooted(_, _, _)
Rooted(ns, id, fuel) ==
    \/ id = NoParent
    \/ fuel > 0 /\ MapHas(ns, id) /\ Rooted(ns, MapGet(ns, id).parentId, fuel - 1)

\* the number of properties of a serialized document, at every depth
RECURSIVE CountProperties(_)
CountProperties(data) ==
    IF ~isObject(data) \/ data.entries = <<>> THEN 0
    ELSE 1 + CountProperties(data.entries[1].data)
           + CountProperties([data EXCEPT !.entries = Tail(@)])

HasProperty(data, path) ==
    LET RECURSIVE Has(_, _)
        Has(d, p) ==
            \/ p = <<>>
            \/ /\ isObject(d)
               /\ \E i \in 1..Len(d.entries) :
                      d.entries[i].name = Head(p) /\ Has(d.entries[i].data, Tail(p))
    IN Has(data, path)

\* C28: over a node map whose parentIds are undefined or ids of group nodes of
\* the map, the output of serializeDesignTokens holds every node exactly once,
\* at the path of its ancestors' names, siblings in ascending index order.
SerializedHoldsEveryNode ==
    (json.done /\ ParentsAreGroups(nodes)) =>
        /\ CountProperties(json.output) = Len(nodes)
        /\ \A i \in 1..Len(nodes) :
               /\ Rooted(nodes, nodes[i].nodeId, Len(nodes))
               /\ HasProperty(json.output, NamePath(nodes, nodes[i].nodeId))
               /\ (PropertyAt(json.output, NamePath(nodes, nodes[i].nodeId)).value # Absent)
                      <=> nodes[i].meta.nodeType = "token"
        /\ \A i, j \in 1..Len(nodes) :
               (nodes[i].parentId = nodes[j].parentId
                /\ StrLess(nodes[i].index, nodes[j].index))
                   => EntryRank(json.output, NamePath(nodes, nodes[i].nodeId))
                          < EntryRank(json.output, NamePath(nodes, nodes[j].nodeId))

(***************************************************************************)
(* The import dialog                                                       *)
(*                                                                         *)
(* The input handlers leave one import result per source in importResults: *)
(* a token-set node followed by the parsed nodes of the source, with the   *)
(* errors of the parse.  Node ids are fresh across the results.  The       *)
(* textarea gives one source, a file selection here gives several.         *)
(***************************************************************************)
MaxImports == 2

ImportSources == UNION {[1..n -> SourceDocuments] : n \in 2..MaxImports}

RECURSIVE convertImportSources(_, _, _, _)
convertImportSources(sources, i, lastId, lastIndex) ==
    IF i > Len(sources) THEN <<>>
    ELSE LET parsed == parseDesignTokens(sources[i])
             currentIndex == generateKeyAfter(lastIndex)
             tokenSetNode == [nodeId |-> lastId + 1, parentId |-> NoParent,
                              index |-> currentIndex,
                              meta |-> [nodeType |-> "token-set", name |-> <<"Base">>,
                                        type |-> Undefined, value |-> Absent]]
             ns == <<tokenSetNode>>
                   \o [k \in 1..Len(parsed.nodes) |->
                          Reparent(parsed.nodes[k], tokenSetNode.nodeId)]
         IN <<[nodes |-> ns, errors |-> parsed.errors]>>
            \o convertImportSources(sources, i + 1, lastId + Len(ns), currentIndex)

\* importResults.some((s) => s.errors.length > 0)
someErrorsInFirst(results) == results # <<>> /\ results[1].errors # <<>>

someErrors(results) == \E i \in 1..Len(results) : results[i].errors # <<>>

\* tx.clear() and then tx.set(node) for every node of every result
RECURSIVE SetAll(_, _)
SetAll(m, ns) == IF ns = <<>> THEN m ELSE SetAll(MapSet(m, Head(ns)), Tail(ns))

RECURSIVE ImportedNodes(_, _)
ImportedNodes(m, results) ==
    IF results = <<>> THEN m
    ELSE ImportedNodes(SetAll(m, Head(results).nodes), Tail(results))

\* the project in the store when the dialog opens
InitialProjects == {parseDesignTokens(data).nodes : data \in SourceDocuments}

ImportInit ==
    /\ nodes \in InitialProjects
    /\ subscribers = <<>>
    /\ stack = <<>>
    /\ ref = [id \in NodeIds |-> NoNode]
    /\ lastTx = NoTx
    /\ wellFormed = TRUE
    /\ observed = <<>>
    /\ ops = 0
    /\ ParseIdle
    /\ ResolveIdle
    /\ ResolverIdle
    /\ AppIdle

handleTextareaInput(newValue) ==
    /\ dialog = "open"
    /\ importResults' = convertImportSources(<<newValue>>, 1, 0, zeroIndex)
    /\ isInputTouched' = FALSE
    /\ UNCHANGED <<dialog, notified>>
    /\ UNCHANGED <<storeVars, parseVars, resolveVars, resolverVars, exportVars, urlVars,
                   cssVars>>

handleMultipleFiles(files) ==
    /\ dialog = "open"
    /\ importResults' = convertImportSources(files, 1, 0, zeroIndex)
    /\ isInputTouched' = TRUE
    /\ UNCHANGED <<dialog, notified>>
    /\ UNCHANGED <<storeVars, parseVars, resolveVars, resolverVars, exportVars, urlVars,
                   cssVars>>

handleImport ==
    /\ dialog = "open"
    /\ isInputTouched' = TRUE
    /\ IF someErrors(importResults)
       THEN UNCHANGED <<nodes, dialog, notified>>
       ELSE /\ nodes' = ImportedNodes(<<>>, importResults)
            /\ notified' = notified + 1
            /\ dialog' = "closed"
    /\ UNCHANGED importResults
    /\ UNCHANGED <<subscribers, stack, ref, lastTx, wellFormed, observed, ops>>
    /\ UNCHANGED <<parseVars, resolveVars, resolverVars, exportVars, urlVars, cssVars>>

ImportNext ==
    \/ \E newValue \in SourceDocuments : handleTextareaInput(newValue)
    \/ \E files \in ImportSources : handleMultipleFiles(files)
    \/ handleImport

SpecImport == ImportInit /\ [][ImportNext]_vars

\* C29: while some import result carries an error the store is not changed and
\* no notification is made; the project is replaced, and the dialog closed,
\* only with results that are all free of errors, and then by their nodes.
ImportNeedsErrorFreeResults ==
    [][LET failed == \E i \in 1..Len(importResults) : importResults[i].errors # <<>>
       IN /\ failed => (nodes' = nodes /\ notified' = notified /\ dialog' = dialog)
          /\ (nodes' # nodes \/ notified' # notified \/ dialog' # dialog)
                 => /\ ~failed
                    /\ nodes' = ImportedNodes(<<>>, importResults)]_vars

\* handleImport returned early on the one result of the textarea, which has
\* errors, and the project is still in the store
ImportRejectedWitness ==
    /\ isInputTouched
    /\ dialog = "open"
    /\ Len(importResults) = 1
    /\ importResults[1].errors # <<>>
    /\ nodes # <<>>
    /\ notified = 0

====
